---------------------------- MODULE Spec2Model ----------------------------
(***************************************************************************)
(* A model of docling-av-transcriber: the transcription pipeline           *)
(* (pipelines/asr_pipeline.py), the media helpers (media/*.py), the        *)
(* conversation model (types.py), the document builder                     *)
(* (pipelines/document_builder.py) and the retry loops of the two provider *)
(* clients (models/aliyun_bailian.py, models/aliyun_vision.py).            *)
(*                                                                         *)
(* Strings are sequences of one-character strings, so that lower(),        *)
(* endswith(), "in" and the string order are computed, not assumed.        *)
(* Optional values are sequences of length at most one: None is << >>.     *)
(* Numbers that may be floats in the program (timestamps) are fixed-point: *)
(* an integer count of 1/Scale.                                            *)
(***************************************************************************)
EXTENDS Integers, Sequences, FiniteSets, TLC

(***************************************************************************)
(* Bounds of the model.                                                    *)
(***************************************************************************)
\* largest configured retry count (settings.retries) explored
MaxRetries == 3
\* longest conversation handed to sorted() in the sort specification
MaxItems == 3
\* the most frame files one run of the extraction process writes
MaxFrameFiles == 2

\* the longest list of pairs downsampled, and the largest max_frames
MaxPairs == 12
MaxKept == 8

(***************************************************************************)
(* Optional values.                                                        *)
(***************************************************************************)
None == << >>
Some(x) == << x >>
IsNone(v) == v = << >>
Val(v) == v[1]

(***************************************************************************)
(* Strings.                                                                *)
(***************************************************************************)
\* the printable ASCII characters in code-point order, from 32 (space); the
\* double quote, the backslash and the back quote, which no string of the
\* model holds, are spelled out
Ascii == <<" ","!","dquote","#","$","%","&","'","(",")","*","+",",","-",".","/","0","1","2","3","4","5","6","7","8","9",":",";","<","=",">","?","@","A","B","C","D","E","F","G","H","I","J","K","L","M","N","O","P","Q","R","S","T","U","V","W","X","Y","Z","[","bslash","]","^","_","bquote","a","b","c","d","e","f","g","h","i","j","k","l","m","n","o","p","q","r","s","t","u","v","w","x","y","z","{","|","}","~">>

Chars == {Ascii[i] : i \in 1..Len(Ascii)} \cup {"\n"}

\* ord(c), tabulated
OrdTable == [c \in Chars |-> IF c = "\n" THEN 10
                             ELSE 31 + CHOOSE i \in 1..Len(Ascii) : Ascii[i] = c]

Ord(c) == OrdTable[c]

\* chr(n), for the printable characters
Chr(n) == Ascii[n - 31]

\* str.lower() on one character, tabulated
LowerTable == [c \in Chars |-> IF OrdTable[c] >= 65 /\ OrdTable[c] <= 90
                               THEN Chr(OrdTable[c] + 32) ELSE c]

LowerChar(c) == LowerTable[c]

\* str.upper() on one character (used to build inputs only)
UpperChar(c) == IF Ord(c) >= 97 /\ Ord(c) <= 122 THEN Chr(Ord(c) - 32) ELSE c

\* str.lower()
Lower(s) == [i \in 1..Len(s) |-> LowerChar(s[i])]

Upper(s) == [i \in 1..Len(s) |-> UpperChar(s[i])]

\* s.startswith(p)
StartsWith(s, p) == Len(p) <= Len(s) /\ SubSeq(s, 1, Len(p)) = p

\* s.endswith(p)
EndsWith(s, p) == Len(p) <= Len(s) /\ SubSeq(s, Len(s) - Len(p) + 1, Len(s)) = p

\* sub in s
Contains(s, sub) ==
    \E i \in 1..(Len(s) - Len(sub) + 1) : SubSeq(s, i, i + Len(sub) - 1) = sub

\* the string order of Python: by code point, a proper prefix first
RECURSIVE StrLt(_, _)
StrLt(a, b) ==
    IF b = << >> THEN FALSE
    ELSE IF a = << >> THEN TRUE
    ELSE IF a[1] # b[1] THEN Ord(a[1]) < Ord(b[1])
    ELSE StrLt(Tail(a), Tail(b))

\* s.lstrip(), for the space character
RECURSIVE LStrip(_)
LStrip(s) == IF s # << >> /\ s[1] = " " THEN LStrip(Tail(s)) ELSE s

\* " ".join(parts)
RECURSIVE JoinSpace(_)
JoinSpace(parts) ==
    IF parts = << >> THEN << >>
    ELSE IF Len(parts) = 1 THEN parts[1]
    ELSE parts[1] \o <<" ">> \o JoinSpace(Tail(parts))

\* str(n) of a natural number
RECURSIVE Digits(_)
Digits(n) == IF n < 10 THEN << Chr(48 + n) >> ELSE Digits(n \div 10) \o << Chr(48 + (n % 10)) >>

\* f"{n:0w}" of a natural number
RECURSIVE ZeroPad(_, _)
ZeroPad(s, w) == IF Len(s) >= w THEN s ELSE ZeroPad(<<"0">> \o s, w)

\* index of the last occurrence of character c in s, 0 when absent (rfind + 1)
RECURSIVE RFind(_, _)
RFind(s, c) ==
    IF s = << >> THEN 0
    ELSE IF s[Len(s)] = c THEN Len(s)
    ELSE RFind(SubSeq(s, 1, Len(s) - 1), c)

\* index of the first occurrence of character c in s, 0 when absent
RECURSIVE Find(_, _)
Find(s, c) ==
    IF s = << >> THEN 0
    ELSE IF s[1] = c THEN 1
    ELSE LET r == Find(Tail(s), c) IN IF r = 0 THEN 0 ELSE r + 1

\* pathlib PurePath.suffix of a file name without directories
PathSuffix(name) ==
    LET i == RFind(name, ".")
    IN IF i > 1 /\ i < Len(name) THEN SubSeq(name, i, Len(name)) ELSE << >>

(***************************************************************************)
(* Fixed-point numbers: an integer count of 1/Scale.                       *)
(***************************************************************************)
Scale == 1000
\* int(x) for x >= 0
IntOf(x) == x \div Scale
\* the fixed-point value of the integer n
OfInt(n) == n * Scale

(***************************************************************************)
(* Binary floating point.  A float of the program is an IEEE double; the   *)
(* ones the model computes with are k/Scale for a natural k.  Mantissas    *)
(* are sequences of bits, most significant first.                          *)
(***************************************************************************)
\* the precision of a double
MantissaBits == 53

\* the binary digits of the natural n
RECURSIVE Bits(_)
Bits(n) == IF n = 0 THEN << >> ELSE Append(Bits(n \div 2), n % 2)

\* the natural a short sequence of bits stands for
RECURSIVE BitsValue(_)
BitsValue(b) ==
    IF b = << >> THEN 0 ELSE 2 * BitsValue(SubSeq(b, 1, Len(b) - 1)) + b[Len(b)]

Zeros(n) == [i \in 1..n |-> 0]

\* b without its leading zeros
StripZeros(b) ==
    IF \A i \in DOMAIN b : b[i] = 0 THEN << >>
    ELSE LET first == CHOOSE i \in DOMAIN b : b[i] = 1 /\ \A j \in 1..(i - 1) : b[j] = 0
         IN SubSeq(b, first, Len(b))

\* b + 1
BitsInc(b) ==
    IF \A i \in DOMAIN b : b[i] = 1 THEN << 1 >> \o Zeros(Len(b))
    ELSE LET p == CHOOSE i \in DOMAIN b : b[i] = 0 /\ \A j \in (i + 1)..Len(b) : b[j] = 1
         IN [i \in DOMAIN b |-> IF i < p THEN b[i] ELSE IF i = p THEN 1 ELSE 0]

\* Long naturals are handled ten bits at a time: a limb is a natural below
\* 2^10, and a sequence of limbs stands for a sequence of ten times as many bits.
LimbBits == 10

LimbsOf(b) ==
    LET pad == (LimbBits - (Len(b) % LimbBits)) % LimbBits
        pb == Zeros(pad) \o b
    IN [l \in 1..(Len(pb) \div LimbBits) |->
           BitsValue(SubSeq(pb, (l - 1) * LimbBits + 1, l * LimbBits))]

BitsOf(limbs) ==
    [i \in 1..(Len(limbs) * LimbBits) |->
        (limbs[((i - 1) \div LimbBits) + 1] \div (2 ^ (LimbBits - 1 - ((i - 1) % LimbBits)))) % 2]

\* long division of b by the small natural d: quotient bits and remainder
BitsDiv(b, d) ==
    LET x == LimbsOf(b)
        rem[l \in 0..Len(x)] ==
            IF l = 0 THEN 0 ELSE (rem[l - 1] * (2 ^ LimbBits) + x[l]) % d
    IN [q |-> BitsOf([l \in DOMAIN x |-> (rem[l - 1] * (2 ^ LimbBits) + x[l]) \div d]),
        r |-> rem[Len(x)]]

\* b * m for the small natural m
BitsMul(b, m) ==
    LET x == LimbsOf(b)
        n == Len(x)
        \* the carry out of the j lowest limbs
        carry[j \in 0..n] ==
            IF j = 0 THEN 0 ELSE (x[n - j + 1] * m + carry[j - 1]) \div (2 ^ LimbBits)
    IN StripZeros(Bits(carry[n])
                    \o BitsOf([l \in 1..n |-> (x[l] * m + carry[n - l]) % (2 ^ LimbBits)]))

\* round the natural b (plus a fraction, if sticky) to MantissaBits bits, ties
\* to even: the mantissa m and the number e of bits dropped, so that the
\* result is m * 2^e
RoundToDouble(b, sticky) ==
    IF Len(b) <= MantissaBits THEN [m |-> b, e |-> 0]
    ELSE LET top == SubSeq(b, 1, MantissaBits)
             half == b[MantissaBits + 1] = 1
             rest == sticky \/ \E i \in (MantissaBits + 2)..Len(b) : b[i] = 1
             up == half /\ (rest \/ top[MantissaBits] = 1)
             m == IF up THEN BitsInc(top) ELSE top
         IN IF Len(m) > MantissaBits
            THEN [m |-> SubSeq(m, 1, MantissaBits), e |-> Len(b) - MantissaBits + 1]
            ELSE [m |-> m, e |-> Len(b) - MantissaBits]

\* float(text) for the decimal k/Scale: the nearest double, m * 2^e
DoubleOf(k) ==
    LET d == BitsDiv(Bits(k) \o Zeros(70), Scale)
        r == RoundToDouble(StripZeros(d.q), d.r # 0)
    IN [m |-> r.m, e |-> r.e - 70]

\* x * n in double arithmetic, for a double x and a small natural n
DoubleTimes(x, n) ==
    LET r == RoundToDouble(BitsMul(x.m, n), FALSE)
    IN [m |-> r.m, e |-> r.e + x.e]

\* int(x) for a double x >= 0 below 2^31
DoubleToInt(x) ==
    IF x.e >= 0 THEN BitsValue(x.m \o Zeros(x.e))
    ELSE IF -x.e >= Len(x.m) THEN 0
    ELSE BitsValue(SubSeq(x.m, 1, Len(x.m) + x.e))

(***************************************************************************)
(* types.py: the conversation model.                                       *)
(***************************************************************************)
KEYFRAME_PREFIX == <<"[","[","K","E","Y","F","R","A","M","E","_","S","T","A","R","T","]","]">>
KEYFRAME_SUFFIX == <<"[","[","K","E","Y","F","R","A","M","E","_","E","N","D","]","]">>

\* ConversationWord(text, start_time, end_time)
ConversationWord(text, start_time, end_time) ==
    [text |-> text, start_time |-> start_time, end_time |-> end_time]

\* ConversationItem(text, start_time, end_time, speaker_id, speaker, words)
ConversationItem(text, start_time, end_time, speaker_id, speaker, words) ==
    [text |-> text, start_time |-> start_time, end_time |-> end_time,
     speaker_id |-> speaker_id, speaker |-> speaker, words |-> words]

\* x < y of two booleans as the outcome of a comparison: "T", "F", or "E" when
\* the comparison raises TypeError
Cmp(b) == IF b THEN "T" ELSE "F"

\* a < b for two Optional numbers that differ: None on either side raises
OptNumLt(a, b) ==
    IF IsNone(a) \/ IsNone(b) THEN "E" ELSE Cmp(Val(a) < Val(b))

\* a < b for two Optional strings that differ
OptStrLt(a, b) ==
    IF IsNone(a) \/ IsNone(b) THEN "E" ELSE Cmp(StrLt(Val(a), Val(b)))

\* ConversationWord.__lt__ (dataclass(order=True)): the tuples
\* (text, start_time, end_time) compared at their first unequal position
WordLt(a, b) ==
    IF a.text # b.text THEN Cmp(StrLt(a.text, b.text))
    ELSE IF a.start_time # b.start_time THEN OptNumLt(a.start_time, b.start_time)
    ELSE IF a.end_time # b.end_time THEN OptNumLt(a.end_time, b.end_time)
    ELSE "F"

\* list.__lt__ on two lists of words
RECURSIVE WordsLt(_, _)
WordsLt(a, b) ==
    IF b = << >> THEN "F"
    ELSE IF a = << >> THEN "T"
    ELSE IF a[1] # b[1] THEN WordLt(a[1], b[1])
    ELSE WordsLt(Tail(a), Tail(b))

\* an order on (start_time, end_time, text, ...): the bounds before the text
ItemLtTimeFirst(a, b) ==
    IF a.start_time # b.start_time THEN OptNumLt(a.start_time, b.start_time)
    ELSE IF a.end_time # b.end_time THEN OptNumLt(a.end_time, b.end_time)
    ELSE IF a.text # b.text THEN Cmp(StrLt(a.text, b.text))
    ELSE IF a.speaker_id # b.speaker_id THEN OptNumLt(a.speaker_id, b.speaker_id)
    ELSE IF a.speaker # b.speaker THEN OptStrLt(a.speaker, b.speaker)
    ELSE WordsLt(a.words, b.words)

\* ConversationItem.__lt__ (dataclass(order=True)): the tuples of the fields in
\* declaration order (text, start_time, end_time, speaker_id, speaker, words)
\* compared at their first unequal position
ItemLt(a, b) ==
    IF a.text # b.text THEN Cmp(StrLt(a.text, b.text))
    ELSE IF a.start_time # b.start_time THEN OptNumLt(a.start_time, b.start_time)
    ELSE IF a.end_time # b.end_time THEN OptNumLt(a.end_time, b.end_time)
    ELSE IF a.speaker_id # b.speaker_id THEN OptNumLt(a.speaker_id, b.speaker_id)
    ELSE IF a.speaker # b.speaker THEN OptStrLt(a.speaker, b.speaker)
    ELSE WordsLt(a.words, b.words)

(***************************************************************************)
(* sorted(conversation), as list.sort works on a list shorter than 64: the *)
(* leading run is found (and reversed when strictly descending), then the  *)
(* rest is inserted by binary insertion.  A comparison that raises ends    *)
(* the sort with TypeError.                                                *)
(***************************************************************************)
Reverse(a) == [i \in 1..Len(a) |-> a[Len(a) + 1 - i]]

\* the run a[1..n] extended while the next element continues it
RECURSIVE RunExtend(_, _, _)
RunExtend(a, n, desc) ==
    IF n = Len(a) THEN [n |-> n, err |-> FALSE]
    ELSE LET c == ItemLt(a[n + 1], a[n])
         IN IF c = "E" THEN [n |-> n, err |-> TRUE]
            ELSE IF (c = "T") = desc THEN RunExtend(a, n + 1, desc)
            ELSE [n |-> n, err |-> FALSE]

\* count_run: the length of the leading run and whether it descends
CountRun(a) ==
    LET c == ItemLt(a[2], a[1])
    IN IF c = "E" THEN [n |-> 1, desc |-> FALSE, err |-> TRUE]
       ELSE LET r == RunExtend(a, 2, c = "T")
            IN [n |-> r.n, desc |-> (c = "T"), err |-> r.err]

\* the insertion point of pivot in the sorted prefix a[l+1..r]
RECURSIVE BinSearch(_, _, _, _)
BinSearch(a, pivot, l, r) ==
    IF l >= r THEN [pos |-> l, err |-> FALSE]
    ELSE LET p == l + ((r - l) \div 2)
             c == ItemLt(pivot, a[p + 1])
         IN IF c = "E" THEN [pos |-> l, err |-> TRUE]
            ELSE IF c = "T" THEN BinSearch(a, pivot, l, p)
            ELSE BinSearch(a, pivot, p + 1, r)

\* binarysort: a[1..start] is sorted; insert a[start+1..]
RECURSIVE BinarySort(_, _)
BinarySort(a, start) ==
    IF start >= Len(a) THEN [ok |-> TRUE, list |-> a]
    ELSE LET pivot == a[start + 1]
             s == BinSearch(a, pivot, 0, start)
         IN IF s.err THEN [ok |-> FALSE, list |-> << >>]
            ELSE BinarySort(SubSeq(a, 1, s.pos) \o << pivot >>
                              \o SubSeq(a, s.pos + 1, start)
                              \o SubSeq(a, start + 2, Len(a)),
                            start + 1)

\* sorted(conversation): [ok |-> FALSE] when a comparison raised TypeError
Sorted(conv) ==
    IF Len(conv) < 2 THEN [ok |-> TRUE, list |-> conv]
    ELSE LET run == CountRun(conv)
         IN IF run.err THEN [ok |-> FALSE, list |-> << >>]
            ELSE LET head == SubSeq(conv, 1, run.n)
                     a == (IF run.desc THEN Reverse(head) ELSE head)
                            \o SubSeq(conv, run.n + 1, Len(conv))
                 IN BinarySort(a, run.n)

\* _format_ms
_format_ms(ms) ==
    IF IsNone(ms) THEN <<"-","-",":","-","-",":","-","-",".","-","-","-">>
    ELSE LET ms_int == IntOf(Val(ms))
             millis == ms_int % 1000
             seconds0 == ms_int \div 1000
             seconds == seconds0 % 60
             minutes0 == seconds0 \div 60
             minutes == minutes0 % 60
             hours == minutes0 \div 60
         IN ZeroPad(Digits(hours), 2) \o <<":">> \o ZeroPad(Digits(minutes), 2)
              \o <<":">> \o ZeroPad(Digits(seconds), 2) \o <<".">>
              \o ZeroPad(Digits(millis), 3)

\* ConversationItem.to_string
to_string(item) ==
    LET has_tag == ~IsNone(item.start_time) /\ ~IsNone(item.end_time)
        time_tag == <<"[","t","i","m","e",":"," ">> \o _format_ms(item.start_time)
                      \o <<"-">> \o _format_ms(item.end_time) \o <<"]">>
        tag_part == IF has_tag THEN << time_tag >> ELSE << >>
    IN IF StartsWith(item.text, KEYFRAME_PREFIX)
       THEN LET nl == Find(item.text, "\n")
                header == IF nl = 0 THEN item.text ELSE SubSeq(item.text, 1, nl - 1)
                rest == IF nl = 0 THEN << >> ELSE SubSeq(item.text, nl + 1, Len(item.text))
                header_body == LStrip(SubSeq(header, Len(KEYFRAME_PREFIX) + 1, Len(header)))
                new_header == JoinSpace(<< KEYFRAME_PREFIX >> \o tag_part
                                  \o (IF header_body # << >> THEN << header_body >> ELSE << >>))
            IN IF nl # 0 THEN new_header \o <<"\n">> \o rest ELSE new_header
       ELSE JoinSpace(tag_part
                \o (IF ~IsNone(item.speaker)
                    THEN << <<"[","s","p","e","a","k","e","r",":">> \o Val(item.speaker) \o <<"]">> >>
                    ELSE << >>)
                \o << item.text >>)

(***************************************************************************)
(* pipelines/document_builder.py                                           *)
(***************************************************************************)
\* str.strip(), for the space character
Strip(s) == Reverse(LStrip(Reverse(LStrip(s))))

\* build_docling_document with "if summary is not None" in place of "if summary"
BuildWithEmptySummary(filename, mimetype, binary_hash, conversation, summary) ==
    LET srt == Sorted(conversation)
        summary_lines ==
            IF ~IsNone(summary)
            THEN << <<"[","s","u","m","m","a","r","y","]"," ">> \o Strip(Val(summary)) >>
            ELSE << >>
    IN IF ~srt.ok THEN [ok |-> FALSE, doc |-> None]
       ELSE [ok |-> TRUE,
             doc |-> Some([origin |-> [filename |-> filename, mimetype |-> mimetype,
                                       binary_hash |-> binary_hash],
                           texts |-> summary_lines
                                       \o [i \in 1..Len(srt.list) |-> to_string(srt.list[i])]])]

\* build_docling_document: [ok |-> FALSE] when sorted() raised TypeError
build_docling_document(filename, mimetype, binary_hash, conversation, summary) ==
    LET srt == Sorted(conversation)
        summary_lines ==
            IF ~IsNone(summary) /\ Val(summary) # << >>
            THEN << <<"[","s","u","m","m","a","r","y","]"," ">> \o Strip(Val(summary)) >>
            ELSE << >>
    IN IF ~srt.ok THEN [ok |-> FALSE, doc |-> None]
       ELSE [ok |-> TRUE,
             doc |-> Some([origin |-> [filename |-> filename, mimetype |-> mimetype,
                                       binary_hash |-> binary_hash],
                           texts |-> summary_lines
                                       \o [i \in 1..Len(srt.list) |-> to_string(srt.list[i])]])]

(***************************************************************************)
(* Files.  A path is a record; fs is the set of paths that exist.  pass    *)
(* tells which extraction pass wrote a frame file (0 for any other file).  *)
(***************************************************************************)
Path(kind, name, pass) == [kind |-> kind, name |-> name, pass |-> pass]

\* tempfile: a fresh name with the given suffix
TempName(suffix) == <<"t","m","p">> \o suffix

\* the path mkstemp(suffix=".wav") gives ensure_wav_audio
TempWav == Path("temp_wav", TempName(<<".","w","a","v">>), 0)

\* a validation that lets a buffer of zero bytes through
ValidateInputAcceptsEmpty(inp) ==
    IF inp.kind = "path"
    THEN IF ~inp.exists
         THEN [ok |-> FALSE, error |-> "FileNotFoundError", backend |-> None]
         ELSE [ok |-> TRUE, error |-> "",
               backend |-> Some([kind |-> "path", path |-> Some(Path("input", inp.name, 0)),
                                 filename |-> inp.name, data |-> inp.data,
                                 readable |-> inp.readable])]
    ELSE IF inp.kind = "bytes"
    THEN IF IsNone(inp.filename) \/ Val(inp.filename) = << >>
         THEN [ok |-> FALSE, error |-> "ValueError", backend |-> None]
         ELSE [ok |-> TRUE, error |-> "",
               backend |-> Some([kind |-> "bytes", path |-> None,
                                 filename |-> Val(inp.filename), data |-> inp.data,
                                 readable |-> TRUE])]
    ELSE [ok |-> FALSE, error |-> "TypeError", backend |-> None]

(***************************************************************************)
(* media/backend.py                                                        *)
(***************************************************************************)
\* validate_input.  inp.kind is "path" (str or Path), "bytes" (BytesIO) or
\* "other"; inp.exists tells whether the path exists.
validate_input(inp) ==
    IF inp.kind = "path"
    THEN IF ~inp.exists
         THEN [ok |-> FALSE, error |-> "FileNotFoundError", backend |-> None]
         ELSE [ok |-> TRUE, error |-> "",
               backend |-> Some([kind |-> "path", path |-> Some(Path("input", inp.name, 0)),
                                 filename |-> inp.name, data |-> inp.data,
                                 readable |-> inp.readable])]
    ELSE IF inp.kind = "bytes"
    THEN IF IsNone(inp.filename) \/ Val(inp.filename) = << >>
         THEN [ok |-> FALSE, error |-> "ValueError", backend |-> None]
         ELSE IF Len(inp.data) = 0
         THEN [ok |-> FALSE, error |-> "ValueError", backend |-> None]
         ELSE [ok |-> TRUE, error |-> "",
               backend |-> Some([kind |-> "bytes", path |-> None,
                                 filename |-> Val(inp.filename), data |-> inp.data,
                                 readable |-> TRUE])]
    ELSE [ok |-> FALSE, error |-> "TypeError", backend |-> None]

(***************************************************************************)
(* media/audio.py                                                          *)
(***************************************************************************)
_NO_AUDIO_ERROR_MARKERS ==
    << <<"O","u","t","p","u","t"," ","f","i","l","e"," ","d","o","e","s"," ","n","o","t"," ","c","o","n","t","a","i","n"," ","a","n","y"," ","s","t","r","e","a","m">>,
       <<"S","t","r","e","a","m"," ","s","p","e","c","i","f","i","e","r"," ","'",":","a","'">>,
       <<"m","a","t","c","h","e","s"," ","n","o"," ","s","t","r","e","a","m","s">> >>

\* a marker check that forgets to lower-case the diagnostic text
HasNoAudioMarkerCaseSensitive(stderr) ==
    \E k \in 1..Len(_NO_AUDIO_ERROR_MARKERS) :
       Contains(stderr, Lower(_NO_AUDIO_ERROR_MARKERS[k]))

\* any(marker.lower() in stderr_lower for marker in _NO_AUDIO_ERROR_MARKERS)
HasNoAudioMarker(stderr) ==
    LET stderr_lower == Lower(stderr)
    IN \E k \in 1..Len(_NO_AUDIO_ERROR_MARKERS) :
          Contains(stderr_lower, Lower(_NO_AUDIO_ERROR_MARKERS[k]))

\* a suffix test that knows the lower-case spelling only
IsWavPathCaseSensitive(source) == PathSuffix(source.name) = <<".","w","a","v">>

\* source.suffix.lower() == ".wav"
IsWavPath(source) == Lower(PathSuffix(source.name)) = <<".","w","a","v">>

\* ensure_wav_audio(source) when the converter, if it is run, exits with rc and
\* writes stderr; tmp is the path mkstemp gives.  The result tells what is
\* returned or raised, whether the converter ran, and which temporary files
\* the call created and deleted.
ensure_wav_audio(source, tmp, rc, stderr) ==
    IF IsWavPath(source)
    THEN [kind |-> "returned", path |-> Some(source), message |-> << >>,
          ran |-> FALSE, created |-> {}, deleted |-> {}]
    ELSE IF rc # 0
    THEN IF HasNoAudioMarker(stderr)
         THEN [kind |-> "NoAudioStreamError", path |-> None, message |-> << >>,
               ran |-> TRUE, created |-> {tmp}, deleted |-> {tmp}]
         ELSE [kind |-> "RuntimeError", path |-> None, message |-> stderr,
               ran |-> TRUE, created |-> {tmp}, deleted |-> {tmp}]
    ELSE [kind |-> "returned", path |-> Some(tmp), message |-> << >>,
          ran |-> TRUE, created |-> {tmp}, deleted |-> {}]

(***************************************************************************)
(* media/video.py                                                          *)
(***************************************************************************)
\* frame_%04d.jpg
FrameName(i) == <<"f","r","a","m","e","_">> \o ZeroPad(Digits(i), 4) \o <<".","j","p","g">>

\* the frame files a pass wrote
FrameFiles(pass, n) == {Path("frame", FrameName(i), pass) : i \in 1..n}

\* sorted(tmp_dir.glob("frame_*.jpg")) after pass `pass` wrote n frames into a
\* directory that held no frame
FrameList(pass, n) == [i \in 1..n |-> Path("frame", FrameName(i), pass)]

\* a stride without the truncation to max_frames
DownsampleStrideOnly(pairs, max_frames) ==
    IF Len(pairs) > max_frames
    THEN LET q == Len(pairs) \div max_frames
             step == IF q > 1 THEN q ELSE 1
         IN [k \in 1..((Len(pairs) + step - 1) \div step) |-> pairs[(k - 1) * step + 1]]
    ELSE pairs

\* pairs[::step][:max_frames] with step = max(1, len(pairs) // max_frames)
Downsample(pairs, max_frames) ==
    IF Len(pairs) > max_frames
    THEN LET q == Len(pairs) \div max_frames
             step == IF q > 1 THEN q ELSE 1
             strided == [k \in 1..((Len(pairs) + step - 1) \div step) |-> pairs[(k - 1) * step + 1]]
         IN SubSeq(strided, 1, IF Len(strided) < max_frames THEN Len(strided) ELSE max_frames)
    ELSE pairs

\* a zip that drops the first timestamps, not the last ones, when there are
\* more timestamps than frames
ZipFromEnd(frames, timestamps) ==
    LET n == IF Len(frames) < Len(timestamps) THEN Len(frames) ELSE Len(timestamps)
    IN [i \in 1..n |-> [frame |-> frames[i], ts |-> timestamps[Len(timestamps) - n + i]]]

\* list(zip(frames, timestamps)), truncated to the shorter
ZipPairs(frames, timestamps) ==
    LET n == IF Len(frames) < Len(timestamps) THEN Len(frames) ELSE Len(timestamps)
    IN [i \in 1..n |-> [frame |-> frames[i], ts |-> timestamps[i]]]

\* extract_keyframes_with_timestamps(path, max_frames).  exists: the source
\* exists; runs: the outcomes of the successive runs of the extraction
\* process, each [ok, n, pts]: exit status 0, the number of frame files it
\* wrote, the timestamps parsed from its diagnostic stream.  The result tells
\* what is returned or raised, how many runs were made (the first with the
\* scene filter, the others with the uniform filter), and what is left on
\* disk.
extract_keyframes_with_timestamps(exists, runs, max_frames) ==
    LET dir == Path("keyframes_dir", <<"k","e","y","f","r","a","m","e","s","_">>, 0)
        Raise(n, left) == [raised |-> "RuntimeError", pairs |-> << >>, nruns |-> n,
                           created |-> {dir}, left |-> left]
        Finish(n, pass) ==
            \* lines 102-125, after the last run, `pass`, left its frames
            LET frames == FrameList(pass, runs[pass].n)
                pairs == ZipPairs(frames, runs[pass].pts)
            IN [raised |-> "", nruns |-> n, created |-> {dir},
                left |-> FrameFiles(pass, runs[pass].n),
                pairs |-> IF frames = << >> THEN << >> ELSE Downsample(pairs, max_frames)]
        \* lines 93-100, with the frames of run `pass` on disk after n runs
        AfterFirst(n, pass) ==
            IF runs[pass].n = 0
            THEN \* _cleanup_frames, then the uniform pass
                 IF ~runs[n + 1].ok
                 THEN Raise(n + 1, FrameFiles(n + 1, runs[n + 1].n))
                 ELSE Finish(n + 1, n + 1)
            ELSE Finish(n, pass)
    IN IF ~exists
       THEN [raised |-> "FileNotFoundError", pairs |-> << >>, nruns |-> 0,
             created |-> {}, left |-> {}]
       ELSE IF ~runs[1].ok
       THEN \* lines 84-90: _cleanup_frames, then the uniform pass
            IF ~runs[2].ok
            THEN Raise(2, FrameFiles(2, runs[2].n))
            ELSE AfterFirst(2, 2)
       ELSE AfterFirst(1, 1)

(***************************************************************************)
(* models/aliyun_vision.py: describe_frames                                *)
(***************************************************************************)
\* f"{timestamp_sec:.3f}"
Format3f(t) == Digits(t \div Scale) \o <<".">> \o ZeroPad(Digits(t % Scale), 3)

\* AliyunVisionClient._wrap_keyframe_text
_wrap_keyframe_text(description, timestamp_sec, index) ==
    KEYFRAME_PREFIX \o <<"f","r","a","m","e","=">> \o Digits(index)
        \o <<";","t","i","m","e","=">> \o Format3f(timestamp_sec) \o <<"s">>
        \o <<"\n">> \o description \o <<"\n">> \o KEYFRAME_SUFFIX

\* int(timestamp_sec * 1000), as a fixed-point number; timestamp_sec is the
\* double that float() made of the decimal timestamp_sec/Scale
IntTimes1000(timestamp_sec) == DoubleToInt(DoubleTimes(DoubleOf(timestamp_sec), 1000))

\* the timestamp, in 1/Scale seconds, that the extraction process reports for
\* frame i of a pass: the scene pass picks frames of a 29.97 fps video, the
\* uniform pass one frame per second
FramePts(pass, i) == IF pass = 1 THEN (i - 1) * 1001 ELSE (i - 1) * 1000

\* timestamps handed to describe_frames alone: 0 s, 1.001 s, 2.5 s
DescTimestamps == {0, 1001, 2500}

\* int(timestamp_sec * 1000) for the timestamps explored, computed once
Timestamps == DescTimestamps \cup {FramePts(p, i) : p \in 1..2, i \in 1..MaxFrameFiles}

IntTimes1000Table == [t \in Timestamps |-> IntTimes1000(t)]

SecToMs(timestamp_sec) ==
    OfInt(IF timestamp_sec \in Timestamps THEN IntTimes1000Table[timestamp_sec]
          ELSE IntTimes1000(timestamp_sec))

\* the loop of describe_frames from frame idx on.  outcomes[i] is what
\* _describe_single_frame does on frame i: [kind |-> "text", text |-> ...],
\* or kind "VisionServiceError", or kind "Exception" (any other exception).
RECURSIVE DescribeFrom(_, _, _, _)
DescribeFrom(frames, outcomes, idx, items) ==
    IF idx > Len(frames) THEN [raised |-> FALSE, items |-> items]
    ELSE IF outcomes[idx].kind = "Exception" THEN [raised |-> TRUE, items |-> << >>]
    ELSE IF outcomes[idx].kind = "VisionServiceError"
    THEN DescribeFrom(frames, outcomes, idx + 1, items)
    ELSE LET start_ms == SecToMs(frames[idx].ts)
             item == ConversationItem(
                        _wrap_keyframe_text(outcomes[idx].text, frames[idx].ts, idx),
                        Some(start_ms), Some(start_ms + OfInt(1)), None, None, << >>)
         IN DescribeFrom(frames, outcomes, idx + 1, Append(items, item))

\* AliyunVisionClient.describe_frames
describe_frames(frames, outcomes) == DescribeFrom(frames, outcomes, 1, << >>)

(***************************************************************************)
(* pipelines/asr_pipeline.py                                               *)
(***************************************************************************)
VIDEO_EXTENSIONS == << <<".","m","p","4">>, <<".","m","o","v">>, <<".","a","v","i">>,
                       <<".","m","k","v">>, <<".","w","e","b","m">> >>

\* the default of extract_keyframes_with_timestamps
max_frames_default == 16

\* AsrPipelineLite._is_video_file
_is_video_file(filename) ==
    IF filename = << >> THEN FALSE
    ELSE \E k \in 1..Len(VIDEO_EXTENSIONS) : EndsWith(Lower(filename), VIDEO_EXTENSIONS[k])

\* a fallback decision that forgets the video check
FallbackForAnyFile(is_video_file, conv, provider) ==
    conv = << >> /\ provider # "None"

\* AsrPipelineLite._should_use_visual_fallback; provider is "None" or "configured"
_should_use_visual_fallback(is_video_file, conv, provider) ==
    is_video_file /\ conv = << >> /\ provider # "None"

\* a finally clause that unlinks the copy only when a WAV was produced
UnlinkOnlyAfterConversion(tsrc, wav) ==
    ~IsNone(tsrc) /\ ~IsNone(wav) /\ wav # tsrc

\* the condition of the finally clause of _prepare_wav_artifact
ShouldUnlinkTempSource(tsrc, wav) ==
    ~IsNone(tsrc) /\ (IsNone(wav) \/ wav # tsrc)

\* a fingerprint taken of the filename whatever the input
HashOfFilename(backend_result) ==
    [sha256 |-> [i \in DOMAIN backend_result.filename |-> Ord(backend_result.filename[i])]]

\* AsrPipelineLite._compute_binary_hash: SHA-256, an injective function here,
\* of the bytes of the file or buffer, and of the encoded filename when
\* reading them raises (readable is FALSE: a directory, a file without read
\* permission)
_compute_binary_hash(backend_result) ==
    IF backend_result.readable
    THEN [sha256 |-> backend_result.data]
    ELSE [sha256 |-> [i \in DOMAIN backend_result.filename |->
                         Ord(backend_result.filename[i])]]

\* the suffix _write_temp_file gives the temporary copy
TempSuffix(filename) ==
    IF PathSuffix(filename) # << >> THEN PathSuffix(filename) ELSE <<".","b","i","n">>

(***************************************************************************)
(* The inputs explored.                                                    *)
(***************************************************************************)
FileNames == { <<"a",".","w","a","v">>, <<"A",".","W","A","V">>,
               <<"c",".","m","p","4">>, <<"C",".","M","p","4">>,
               <<"s",".","m","p","3">>, <<"n">> }

Contents == { <<1>>, <<2>> }

Inputs ==
    [kind : {"path"}, name : FileNames, exists : BOOLEAN, data : Contents,
     filename : {None}, readable : {TRUE}]
    \cup [kind : {"bytes"}, name : {<< >>}, exists : {FALSE},
          data : Contents \cup {<< >>},
          filename : {None, Some(<< >>)} \cup {Some(f) : f \in FileNames},
          readable : {TRUE}]
    \cup [kind : {"other"}, name : {<< >>}, exists : {FALSE}, data : {<< >>},
          filename : {None}, readable : {TRUE}]

Summaries == {None, Some(<< >>), Some(<<"s"," ">>)}

\* what the converter writes to its diagnostic stream
StderrTexts ==
    LET m == _NO_AUDIO_ERROR_MARKERS
    IN { << >>,
         <<"P","e","r","m","i","s","s","i","o","n"," ","d","e","n","i","e","d">>,
         m[1], Upper(m[1]),
         <<"x",":"," ">> \o m[2] \o <<"!">>,
         Upper(m[3]) \o <<"\n">>,
         SubSeq(m[3], 1, Len(m[3]) - 1) }

ExitCodes == {0, 1}

\* what the speech-to-text provider answers
Hello == ConversationItem(<<"h","i">>, Some(0), Some(1200), None, None, << >>)
Later == ConversationItem(<<"a","h">>, Some(5000), Some(6000), None, None, << >>)
Untimed == ConversationItem(<<"h","i">>, None, None, None, None, << >>)

ProviderResults ==
    {[kind |-> "AsrServiceError", items |-> << >>]}
    \cup {[kind |-> "items", items |-> l] :
            l \in { << >>, << Hello >>, << Hello, Later >>, << Hello, Untimed >> }}

\* the outcome of one run of the extraction process: pass 1 runs the scene
\* filter, the later ones the uniform filter (one frame per second)
RunOutcome(pass, ok, n, k) ==
    [ok |-> ok, n |-> n,
     pts |-> [i \in 1..k |-> FramePts(pass, i)]]

\* a failed run may have written frame files; its diagnostic stream is not read
RunOutcomes(pass) ==
    {RunOutcome(pass, TRUE, n, k) : n \in 0..MaxFrameFiles, k \in 0..MaxFrameFiles}
    \cup {RunOutcome(pass, FALSE, n, 0) : n \in 0..MaxFrameFiles}

\* a run that is never made
NoRun == RunOutcome(0, FALSE, 0, 0)

\* the outcomes of the runs one call makes: those of the runs it does not
\* make are NoRun
RunSequences ==
    { rs \in (RunOutcomes(1) \cup {NoRun}) \X (RunOutcomes(2) \cup {NoRun})
               \X (RunOutcomes(3) \cup {NoRun}) :
        LET made == IF rs[1] = NoRun THEN 0
                    ELSE extract_keyframes_with_timestamps(TRUE, rs, max_frames_default).nruns
        IN \A i \in 1..3 : (rs[i] = NoRun) <=> (i > made) }

CaptionOutcomes ==
    { [kind |-> "text", text |-> <<"c","a","t">>],
      [kind |-> "VisionServiceError", text |-> << >>],
      [kind |-> "Exception", text |-> << >>] }

(***************************************************************************)
(* The state.                                                              *)
(***************************************************************************)
VARIABLES
    vision_provider,    \* self.vision_provider: "None" or "configured"
    vision_init,        \* how __init__ came by it: "explicit", or what AliyunVisionClient() did
    pc,                 \* where the current pipeline call stands
    entry,              \* "transcribe" or "transcribe_with_artifacts"
    input,              \* the path_or_stream and filename arguments
    summary,            \* the summary argument
    backend,            \* backend_result
    binary_hash,
    fs,                 \* the files that exist
    temp_source,        \* temp_source of _prepare_wav_artifact
    ensure_result,      \* what ensure_wav_audio returned or raised
    wav_path,
    conversation,
    n_stt,              \* the number of items the speech-to-text stage yielded, -1 before it
    video_temp_source,  \* temp_source of _describe_video_frames
    frames,             \* the pairs extract_keyframes_with_timestamps returned
    visual_items,
    trace,              \* the external operations of the current call, in order
    returned,           \* what the call returned
    raised              \* what the call raised

pvars == << vision_provider, vision_init, pc, entry, input, summary, backend, binary_hash, fs,
            temp_source, ensure_result, wav_path, conversation, n_stt,
            video_temp_source, frames, visual_items, trace, returned, raised >>

\* the retry loops of the two provider clients
VARIABLES
    retries,     \* settings.retries, the same for both clients
    outcomes,    \* the per-attempt outcomes
    d_attempt,   \* _transcribe_direct: the attempt about to be made
    d_sent,      \* the requests it has sent
    d_delays,    \* the time.sleep() calls it has made, in order
    d_result,    \* "running", "parse" (the response goes on to parsing), or the exception raised
    v_attempt,   \* _post_with_retry: the same
    v_sent,
    v_delays,
    v_result

rvars == << retries, outcomes, d_attempt, d_sent, d_delays, d_result,
            v_attempt, v_sent, v_delays, v_result >>

\* sorted(conversation) on its own
VARIABLES
    sort_in,     \* the conversation handed to sorted()
    sort_out     \* None before the call, then Some of what Sorted gives

svars == << sort_in, sort_out >>

\* ensure_wav_audio on its own
VARIABLES
    conv_source,  \* the source path
    conv_rc,      \* the exit code the converter will give
    conv_stderr,  \* what it will write to its diagnostic stream
    conv_result   \* None before the call, then Some of what ensure_wav_audio gives

cvars == << conv_source, conv_rc, conv_stderr, conv_result >>

\* describe_frames on its own
VARIABLES
    desc_frames,  \* the (frame, timestamp) pairs
    desc_caps,    \* what _describe_single_frame does on each frame
    desc_out      \* None before the call, then Some of what describe_frames gives

dvars == << desc_frames, desc_caps, desc_out >>

VARIABLES
    a_pc,        \* where _transcribe stands
    a_req,       \* the public method called and its arguments
    a_via,       \* how the asynchronous path was entered: "urls" or "upload"
    a_urls,      \* the file_urls handed to Transcription.async_call
    a_attempt,   \* attempt of the loop of _transcribe_direct
    a_trace,     \* the requests made so far, with what came back
    a_return,    \* the list returned
    a_raised     \* the exception raised

avars == << a_pc, a_req, a_via, a_urls, a_attempt, a_trace, a_return, a_raised >>

VARIABLES
    k_pc,        \* where extract_keyframes_with_timestamps stands
    k_files,     \* the frame files in tmp_dir
    k_pts,       \* timestamps, parsed from the last run's diagnostic stream
    k_runs,      \* the runs of the extraction process made so far
    k_result,    \* the list returned
    k_raised     \* the exception raised

kvars == << k_pc, k_files, k_pts, k_runs, k_result, k_raised >>

VARIABLES
    m_pairs,     \* the (frame, timestamp) pairs before downsampling
    m_max,       \* max_frames
    m_out        \* the pairs returned

mvars == << m_pairs, m_max, m_out >>

VARIABLES
    g_frames,    \* the keyframes of a silent video, with their timestamps
    g_items,     \* the items describe_frames made of them
    g_doc        \* the document built

gvars == << g_frames, g_items, g_doc >>

VARIABLES
    t_seg,       \* a segment of the provider's response
    t_item,      \* a conversation item
    t_lines      \* the text lines of the document built of it

tvars == << t_seg, t_item, t_lines >>

VARIABLES
    h_first,     \* the input of one run
    h_second,    \* the input of another run
    h_hashes     \* the fingerprints of the two documents

hvars == << h_first, h_second, h_hashes >>

VARIABLES
    dashscope,    \* the attributes of the dashscope module, one per process
    cl_settings,  \* self.settings of each client
    cl_pc,        \* where each client is in _transcribe_with_sdk
    cl_jobs,      \* the number of jobs each client has submitted
    submitted     \* the jobs the service received, in order

xvars == << dashscope, cl_settings, cl_pc, cl_jobs, submitted >>

VARIABLES
    n_result,    \* the result member of a response
    n_items      \* what _parse_items returned for it

nvars == << n_result, n_items >>

VARIABLES
    _pipeline_singleton,  \* the global of api.py
    instances,            \* the number of AsrPipelineLite instances constructed
    th_pc,                \* where each thread is in a call of the module API
    th_calls,             \* the number of calls each thread has begun
    th_new,               \* the instance a thread has constructed and not yet stored
    used                  \* the instance each finished call ran on, in order

ivars == << _pipeline_singleton, instances, th_pc, th_calls, th_new, used >>

Ev(op, path, name) == [op |-> op, path |-> path, name |-> name]

NoEnsure == [kind |-> "", path |-> None, message |-> << >>, ran |-> FALSE,
             created |-> {}, deleted |-> {}]

Error(type, message) == Some([type |-> type, message |-> message])

(***************************************************************************)
(* The pipeline: one call of transcribe or transcribe_with_artifacts on an *)
(* AsrPipelineLite instance, stage by stage.                               *)
(***************************************************************************)
PipelineInit ==
    /\ vision_provider = "None"
    /\ vision_init = ""
    /\ pc = "new"
    /\ entry = ""
    /\ input = None
    /\ summary = None
    /\ backend = None
    /\ binary_hash = None
    /\ fs = {}
    /\ temp_source = None
    /\ ensure_result = NoEnsure
    /\ wav_path = None
    /\ conversation = << >>
    /\ n_stt = -1
    /\ video_temp_source = None
    /\ frames = << >>
    /\ visual_items = << >>
    /\ trace = << >>
    /\ returned = None
    /\ raised = None

\* a constructor that lets an unexpected error of AliyunVisionClient() through
InitVisionCatchesVisionErrorOnly(outcome) ==
    IF outcome = "constructed" THEN [raised |-> "", provider |-> "configured"]
    ELSE IF outcome = "VisionServiceError" THEN [raised |-> "", provider |-> "None"]
    ELSE [raised |-> outcome, provider |-> "None"]

\* AsrPipelineLite._init_default_vision_provider, when AliyunVisionClient()
\* returns a client ("constructed"), raises VisionServiceError (no API key) or
\* raises another exception
_init_default_vision_provider(outcome) ==
    IF outcome = "constructed" THEN [raised |-> "", provider |-> "configured"]
    ELSE [raised |-> "", provider |-> "None"]

VisionInitOutcomes == {"constructed", "VisionServiceError", "Exception"}

\* AsrPipelineLite.__init__(provider, vision_provider)
Construct ==
    /\ pc = "new"
    /\ \E given \in {"None", "configured"}, outcome \in VisionInitOutcomes :
          IF given # "None"
          THEN /\ vision_provider' = given
               /\ vision_init' = "explicit"
               /\ pc' = "idle"
               /\ UNCHANGED raised
          ELSE LET r == _init_default_vision_provider(outcome)
               IN /\ vision_provider' = r.provider
                  /\ vision_init' = outcome
                  /\ IF r.raised = ""
                     THEN pc' = "idle" /\ UNCHANGED raised
                     ELSE pc' = "done" /\ raised' = Error(r.raised, << >>)
    /\ UNCHANGED << entry, input, summary, backend, binary_hash, fs, temp_source,
                    ensure_result, wav_path, conversation, n_stt, video_temp_source,
                    frames, visual_items, trace, returned >>
    /\ UNCHANGED << rvars, svars, cvars, dvars, avars, kvars, mvars, gvars, tvars, hvars, xvars, nvars, ivars >>

\* transcribe / transcribe_with_artifacts up to line 82: validate_input and
\* _compute_binary_hash
CallWith(e, inp, sm) ==
    /\ entry' = e
    /\ input' = Some(inp)
    /\ summary' = sm
    /\ temp_source' = None
    /\ ensure_result' = NoEnsure
    /\ wav_path' = None
    /\ conversation' = << >>
    /\ n_stt' = -1
    /\ video_temp_source' = None
    /\ frames' = << >>
    /\ visual_items' = << >>
    /\ returned' = None
    /\ fs' = IF inp.kind = "path" /\ inp.exists
             THEN fs \cup {Path("input", inp.name, 0)} ELSE fs
    /\ LET v == validate_input(inp)
       IN IF v.ok
          THEN /\ backend' = v.backend
               /\ binary_hash' = Some(_compute_binary_hash(Val(v.backend)))
               /\ trace' = << Ev("validate_input", None, << >>),
                              Ev("_compute_binary_hash", None, << >>) >>
               /\ raised' = None
               /\ pc' = "prepare_wav"
          ELSE /\ backend' = None
               /\ binary_hash' = None
               /\ trace' = << Ev("validate_input", None, << >>) >>
               /\ raised' = Error(v.error, << >>)
               /\ pc' = "done"
    /\ UNCHANGED << vision_provider, vision_init >>
    /\ UNCHANGED << rvars, svars, cvars, dvars, avars, kvars, mvars, gvars, tvars, hvars, xvars, nvars, ivars >>

Call ==
    /\ pc = "idle"
    /\ \E e \in {"transcribe", "transcribe_with_artifacts"}, inp \in Inputs, sm \in Summaries :
          CallWith(e, inp, sm)

\* _prepare_wav_artifact, lines 211-221: the temporary copy of an in-memory input
PrepareWavBegin ==
    /\ pc = "prepare_wav"
    /\ IF Val(backend).kind = "path"
       THEN UNCHANGED << temp_source, fs, trace >>
       ELSE LET t == Path("temp_audio_source", TempName(TempSuffix(Val(backend).filename)), 0)
            IN /\ temp_source' = Some(t)
               /\ fs' = fs \cup {t}
               /\ trace' = Append(trace, Ev("_write_temp_file", Some(t), << >>))
    /\ pc' = "ensure_wav"
    /\ UNCHANGED << vision_provider, vision_init, entry, input, summary, backend, binary_hash,
                    ensure_result, wav_path, conversation, n_stt, video_temp_source,
                    frames, visual_items, returned, raised >>
    /\ UNCHANGED << rvars, svars, cvars, dvars, avars, kvars, mvars, gvars, tvars, hvars, xvars, nvars, ivars >>

\* ensure_wav_audio(source_path), with the converter's exit code and stderr
EnsureWavAudio ==
    /\ pc = "ensure_wav"
    /\ \E rc \in ExitCodes, stderr \in StderrTexts :
          LET source == IF IsNone(temp_source) THEN Val(Val(backend).path) ELSE Val(temp_source)
              r == ensure_wav_audio(source, TempWav, rc, stderr)
          IN /\ ensure_result' = r
             /\ fs' = (fs \cup r.created) \ r.deleted
             /\ trace' = IF r.ran THEN Append(trace, Ev("ffmpeg_convert", Some(source), << >>))
                         ELSE trace
    /\ pc' = "prepare_end"
    /\ UNCHANGED << vision_provider, vision_init, entry, input, summary, backend, binary_hash,
                    temp_source, wav_path, conversation, n_stt, video_temp_source,
                    frames, visual_items, returned, raised >>
    /\ UNCHANGED << rvars, svars, cvars, dvars, avars, kvars, mvars, gvars, tvars, hvars, xvars, nvars, ivars >>

\* a _prepare_wav_artifact without the except clause: NoAudioStreamError
\* reaches the caller like any other error of the conversion
PrepareWavEndPropagates ==
    /\ pc = "prepare_end"
    /\ LET wav == IF ensure_result.kind = "returned" THEN ensure_result.path ELSE None
       IN /\ fs' = IF ShouldUnlinkTempSource(temp_source, wav)
                   THEN fs \ {Val(temp_source)} ELSE fs
          /\ wav_path' = wav
    /\ IF ensure_result.kind # "returned"
       THEN /\ raised' = Error(ensure_result.kind, ensure_result.message)
            /\ pc' = "done"
       ELSE /\ pc' = "stt"
            /\ UNCHANGED raised
    /\ UNCHANGED << vision_provider, vision_init, entry, input, summary, backend, binary_hash,
                    temp_source, ensure_result, conversation, n_stt, video_temp_source,
                    frames, visual_items, trace, returned >>
    /\ UNCHANGED << rvars, svars, cvars, dvars, avars, kvars, mvars, gvars, tvars, hvars, xvars, nvars, ivars >>

\* _prepare_wav_artifact, lines 223-233: return, except NoAudioStreamError, finally
PrepareWavEnd ==
    /\ pc = "prepare_end"
    /\ LET wav == IF ensure_result.kind = "returned" THEN ensure_result.path ELSE None
       IN /\ fs' = IF ShouldUnlinkTempSource(temp_source, wav)
                   THEN fs \ {Val(temp_source)} ELSE fs
          /\ wav_path' = wav
    /\ IF ensure_result.kind = "RuntimeError"
       THEN /\ raised' = Error("RuntimeError", ensure_result.message)
            /\ pc' = "done"
       ELSE /\ pc' = "stt"
            /\ UNCHANGED raised
    /\ UNCHANGED << vision_provider, vision_init, entry, input, summary, backend, binary_hash,
                    temp_source, ensure_result, conversation, n_stt, video_temp_source,
                    frames, visual_items, trace, returned >>
    /\ UNCHANGED << rvars, svars, cvars, dvars, avars, kvars, mvars, gvars, tvars, hvars, xvars, nvars, ivars >>

\* a dispatch that hands every input to transcribe_path
ProviderCallByPathOnly(b, wav) == Ev("transcribe_path", wav, << >>)

\* transcribe_with_artifacts, lines 93-102: the provider method called for a
\* path input and for an in-memory input
ProviderCall(b, wav) ==
    IF b.kind = "path"
    THEN Ev("transcribe_path", wav, << >>)
    ELSE Ev("transcribe_bytes", wav, b.filename)

\* a speech-to-text stage that takes an error of the provider for an empty
\* transcription
SpeechToTextSwallowsError ==
    /\ pc = "stt"
    /\ \E res \in ProviderResults :
          IF IsNone(wav_path)
          THEN /\ conversation' = << >>
               /\ n_stt' = 0
               /\ UNCHANGED trace
          ELSE /\ trace' = Append(trace,
                             ProviderCall(Val(backend), wav_path))
                           \o (IF res.kind = "items" THEN << >>
                               ELSE << Ev("provider_raised", None, << >>) >>)
               /\ conversation' = res.items
               /\ n_stt' = Len(res.items)
    /\ pc' = "decide"
    /\ UNCHANGED << vision_provider, vision_init, entry, input, summary, backend, binary_hash, fs,
                    temp_source, ensure_result, wav_path, video_temp_source, frames,
                    visual_items, returned, raised >>
    /\ UNCHANGED << rvars, svars, cvars, dvars, avars, kvars, mvars, gvars, tvars, hvars, xvars, nvars, ivars >>

\* transcribe_with_artifacts, lines 86-104: the speech-to-text stage
SpeechToText ==
    /\ pc = "stt"
    /\ \E res \in ProviderResults :
          IF IsNone(wav_path)
          THEN /\ conversation' = << >>
               /\ n_stt' = 0
               /\ pc' = "decide"
               /\ UNCHANGED << trace, raised >>
          ELSE /\ trace' = Append(trace,
                             ProviderCall(Val(backend), wav_path))
                           \o (IF res.kind = "items" THEN << >>
                               ELSE << Ev("provider_raised", None, << >>) >>)
               /\ IF res.kind = "items"
                  THEN /\ conversation' = res.items
                       /\ n_stt' = Len(res.items)
                       /\ pc' = "decide"
                       /\ UNCHANGED raised
                  ELSE /\ raised' = Error(res.kind, << >>)
                       /\ pc' = "done"
                       /\ UNCHANGED << conversation, n_stt >>
    /\ UNCHANGED << vision_provider, vision_init, entry, input, summary, backend, binary_hash, fs,
                    temp_source, ensure_result, wav_path, video_temp_source, frames,
                    visual_items, returned >>
    /\ UNCHANGED << rvars, svars, cvars, dvars, avars, kvars, mvars, gvars, tvars, hvars, xvars, nvars, ivars >>

\* transcribe_with_artifacts, lines 105-110, and _describe_video_frames, lines
\* 167-178: the fallback decision and the temporary copy for the extraction
FallbackDecision ==
    /\ pc = "decide"
    /\ IF _should_use_visual_fallback(_is_video_file(Val(backend).filename),
                                      conversation, vision_provider)
       THEN /\ pc' = "extract"
            /\ IF Val(backend).kind = "path"
               THEN UNCHANGED << video_temp_source, fs, trace >>
               ELSE LET t == Path("temp_video_source",
                                  TempName(TempSuffix(Val(backend).filename)), 0)
                    IN /\ video_temp_source' = Some(t)
                       /\ fs' = fs \cup {t}
                       /\ trace' = Append(trace, Ev("_write_temp_file", Some(t), << >>))
       ELSE /\ pc' = "build"
            /\ UNCHANGED << video_temp_source, fs, trace >>
    /\ UNCHANGED << vision_provider, vision_init, entry, input, summary, backend, binary_hash,
                    temp_source, ensure_result, wav_path, conversation, n_stt, frames,
                    visual_items, returned, raised >>
    /\ UNCHANGED << rvars, svars, cvars, dvars, avars, kvars, mvars, gvars, tvars, hvars, xvars, nvars, ivars >>

\* the events of n runs of the extraction process
RunEvents(n) ==
    [i \in 1..n |-> Ev("ffmpeg_extract", None,
                       IF i = 1 THEN <<"s","c","e","n","e">> ELSE <<"f","p","s","=","1">>)]

\* _describe_video_frames without its except clause around the extraction
ExtractKeyframesPropagates ==
    /\ pc = "extract"
    /\ \E gone \in BOOLEAN, runs \in RunSequences :
       /\ gone => Val(backend).kind = "path"
       /\ LET video_path == IF IsNone(video_temp_source) THEN Val(Val(backend).path)
                            ELSE Val(video_temp_source)
              before == IF gone THEN fs \ {video_path} ELSE fs
              r == extract_keyframes_with_timestamps(video_path \in before, runs,
                                                     max_frames_default)
          IN /\ (runs[1] = NoRun) <=> (video_path \notin before)
             /\ fs' = before \cup r.created \cup r.left
             /\ trace' = trace
                           \o (IF gone THEN << Ev("input_removed", Some(video_path), << >>) >> ELSE << >>)
                           \o << Ev("extract_keyframes", Some(video_path), << >>) >>
                           \o RunEvents(r.nruns)
                           \o (IF r.raised # "" THEN << Ev("extract_raised", None, << >>) >>
                               ELSE << >>)
             /\ frames' = r.pairs
             /\ pc' = IF r.raised # "" THEN "done"
                      ELSE IF r.pairs # << >> THEN "caption" ELSE "describe_end"
             /\ raised' = IF r.raised # "" THEN Error(r.raised, << >>) ELSE raised
    /\ UNCHANGED << vision_provider, vision_init, entry, input, summary, backend, binary_hash,
                    temp_source, ensure_result, wav_path, conversation, n_stt,
                    video_temp_source, visual_items, returned >>
    /\ UNCHANGED << rvars, svars, cvars, dvars, avars, kvars, mvars, gvars, tvars, hvars, xvars, nvars, ivars >>

\* extract_keyframes_with_timestamps(video_path) inside _describe_video_frames.
\* gone: the input file was removed by someone else since it was validated.
ExtractKeyframes ==
    /\ pc = "extract"
    /\ \E gone \in BOOLEAN, runs \in RunSequences :
       /\ gone => Val(backend).kind = "path"
       /\ LET video_path == IF IsNone(video_temp_source) THEN Val(Val(backend).path)
                            ELSE Val(video_temp_source)
              before == IF gone THEN fs \ {video_path} ELSE fs
              r == extract_keyframes_with_timestamps(video_path \in before, runs,
                                                     max_frames_default)
          IN /\ (runs[1] = NoRun) <=> (video_path \notin before)
             /\ fs' = before \cup r.created \cup r.left
             /\ trace' = trace
                           \o (IF gone THEN << Ev("input_removed", Some(video_path), << >>) >> ELSE << >>)
                           \o << Ev("extract_keyframes", Some(video_path), << >>) >>
                           \o RunEvents(r.nruns)
                           \o (IF r.raised # "" THEN << Ev("extract_raised", None, << >>) >>
                               ELSE << >>)
             /\ frames' = r.pairs
             /\ pc' = IF r.raised = "" /\ r.pairs # << >> THEN "caption" ELSE "describe_end"
    /\ UNCHANGED << vision_provider, vision_init, entry, input, summary, backend, binary_hash,
                    temp_source, ensure_result, wav_path, conversation, n_stt,
                    video_temp_source, visual_items, returned, raised >>
    /\ UNCHANGED << rvars, svars, cvars, dvars, avars, kvars, mvars, gvars, tvars, hvars, xvars, nvars, ivars >>

\* what describe_frames does frame by frame: it goes on after a caption and
\* after a VisionServiceError, and stops at any other exception
\* describe_frames with the frames visited last to first
CaptionEventsReversed(fr, caps) ==
    [i \in 1..Len(fr) |->
        Ev(IF caps[Len(fr) + 1 - i].kind = "text" THEN "frame_captioned" ELSE "frame_skipped",
           Some(fr[Len(fr) + 1 - i].frame), << >>)]

CaptionEvents(fr, caps) ==
    LET stops == {i \in DOMAIN fr : caps[i].kind = "Exception"}
        last == IF stops = {} THEN Len(fr)
                ELSE CHOOSE i \in stops : \A j \in stops : i <= j
    IN [i \in 1..last |->
           Ev(IF caps[i].kind = "text" THEN "frame_captioned"
              ELSE IF caps[i].kind = "VisionServiceError" THEN "frame_skipped"
              ELSE "frame_raised",
              Some(fr[i].frame), << >>)]

\* self.vision_provider.describe_frames(frames) inside _describe_video_frames
CaptionFrames ==
    /\ pc = "caption"
    /\ \E caps \in [1..Len(frames) -> CaptionOutcomes] :
          LET r == describe_frames(frames, caps)
          IN /\ visual_items' = IF r.raised THEN << >> ELSE r.items
             /\ trace' = Append(trace, Ev("describe_frames", None, << >>))
                            \o CaptionEvents(frames, caps)
    /\ pc' = "describe_end"
    /\ UNCHANGED << vision_provider, vision_init, entry, input, summary, backend, binary_hash, fs,
                    temp_source, ensure_result, wav_path, conversation, n_stt,
                    video_temp_source, frames, returned, raised >>
    /\ UNCHANGED << rvars, svars, cvars, dvars, avars, kvars, mvars, gvars, tvars, hvars, xvars, nvars, ivars >>

\* _describe_video_frames, lines 190-192 (finally), and transcribe_with_artifacts,
\* lines 111-115
DescribeEnd ==
    /\ pc = "describe_end"
    /\ fs' = IF ~IsNone(video_temp_source) THEN fs \ {Val(video_temp_source)} ELSE fs
    /\ conversation' = conversation \o visual_items
    /\ pc' = "build"
    /\ UNCHANGED << vision_provider, vision_init, entry, input, summary, backend, binary_hash,
                    temp_source, ensure_result, wav_path, n_stt, video_temp_source,
                    frames, visual_items, trace, returned, raised >>
    /\ UNCHANGED << rvars, svars, cvars, dvars, avars, kvars, mvars, gvars, tvars, hvars, xvars, nvars, ivars >>

\* transcribe_with_artifacts, lines 116-127, and transcribe, lines 66-69
BuildDocument ==
    /\ pc = "build"
    /\ LET mimetype == IF _is_video_file(Val(backend).filename)
                       THEN <<"v","i","d","e","o","/","m","p","4">>
                       ELSE <<"a","u","d","i","o","/","w","a","v">>
           r == build_docling_document(Val(backend).filename, mimetype, Val(binary_hash),
                                       conversation, summary)
       IN IF r.ok
          THEN /\ returned' = Some([kind |-> IF entry = "transcribe" THEN "DoclingDocument"
                                            ELSE "TranscriptionResult",
                                    document |-> Val(r.doc),
                                    audio_path |-> IF entry = "transcribe" THEN None
                                                   ELSE wav_path])
               /\ UNCHANGED raised
          ELSE /\ raised' = Error("TypeError", << >>)
               /\ UNCHANGED returned
    /\ pc' = "done"
    /\ UNCHANGED << vision_provider, vision_init, entry, input, summary, backend, binary_hash, fs,
                    temp_source, ensure_result, wav_path, conversation, n_stt,
                    video_temp_source, frames, visual_items, trace >>
    /\ UNCHANGED << rvars, svars, cvars, dvars, avars, kvars, mvars, gvars, tvars, hvars, xvars, nvars, ivars >>

PipelineNext ==
    \/ Construct
    \/ Call
    \/ PrepareWavBegin
    \/ EnsureWavAudio
    \/ PrepareWavEnd
    \/ SpeechToText
    \/ FallbackDecision
    \/ ExtractKeyframes
    \/ CaptionFrames
    \/ DescribeEnd
    \/ BuildDocument

(***************************************************************************)
(* The retry loops of the two provider clients.  Both clients are run on   *)
(* the same per-attempt outcomes of the network: outcomes[k] is what the   *)
(* k-th request of a loop meets, a network error                           *)
(* (requests.exceptions.RequestException) or a response with a status.     *)
(***************************************************************************)
HTTP_OK == 200

NetworkError == [kind |-> "neterr", status |-> 0]
Response(status) == [kind |-> "response", status |-> status]

AttemptOutcomes == {NetworkError} \cup {Response(st) : st \in {200, 204, 404, 500, 503}}

\* a direct loop that also retries client errors
DirectStepRetriesClientErrors(attempt, R, outcome) ==
    IF outcome.kind = "neterr"
    THEN IF attempt < R
         THEN [next |-> "retry", delay |-> 2 ^ attempt]
         ELSE [next |-> "AsrServiceError", delay |-> 0]
    ELSE IF outcome.status >= 400 /\ attempt < R
    THEN [next |-> "retry", delay |-> 2 ^ attempt]
    ELSE IF outcome.status # 200
    THEN [next |-> "AsrServiceError", delay |-> 0]
    ELSE [next |-> "parse", delay |-> 0]

\* a vision loop that gives up on the first server error
VisionStepNoServerRetry(attempt, R, outcome) ==
    IF outcome.kind = "neterr"
    THEN IF attempt >= R
         THEN [next |-> "VisionServiceError", delay |-> 0]
         ELSE [next |-> "retry", delay |-> 2 ^ attempt]
    ELSE IF outcome.status # 200
    THEN [next |-> "VisionServiceError", delay |-> 0]
    ELSE [next |-> "parse", delay |-> 0]

\* one iteration of the loop of _transcribe_direct (lines 182-206) and, when
\* the loop is left by break, the status check after it (lines 208-211):
\* "retry" (sleep, then the next iteration), "parse", or "AsrServiceError"
DirectStep(attempt, R, outcome) ==
    IF outcome.kind = "neterr"
    THEN IF attempt < R
         THEN [next |-> "retry", delay |-> 2 ^ attempt]
         ELSE [next |-> "AsrServiceError", delay |-> 0]
    ELSE IF outcome.status >= 500 /\ attempt < R
    THEN [next |-> "retry", delay |-> 2 ^ attempt]
    ELSE IF outcome.status # 200
    THEN [next |-> "AsrServiceError", delay |-> 0]
    ELSE [next |-> "parse", delay |-> 0]

\* one iteration of the loop of _post_with_retry (lines 97-138): "retry",
\* "parse" (response.json() is taken), or "VisionServiceError"
VisionStep(attempt, R, outcome) ==
    IF outcome.kind = "neterr"
    THEN IF attempt >= R
         THEN [next |-> "VisionServiceError", delay |-> 0]
         ELSE [next |-> "retry", delay |-> 2 ^ attempt]
    ELSE IF outcome.status # HTTP_OK
    THEN IF outcome.status >= 500 /\ attempt < R
         THEN [next |-> "retry", delay |-> 2 ^ attempt]
         ELSE [next |-> "VisionServiceError", delay |-> 0]
    ELSE [next |-> "parse", delay |-> 0]

RetryInit ==
    /\ retries \in 0..MaxRetries
    /\ outcomes \in [1..MaxRetries -> AttemptOutcomes]
    /\ d_attempt = 1
    /\ d_sent = 0
    /\ d_delays = << >>
    /\ d_result = "running"
    /\ v_attempt = 1
    /\ v_sent = 0
    /\ v_delays = << >>
    /\ v_result = "running"

RetryIdle ==
    /\ retries = 0
    /\ outcomes = << >>
    /\ d_attempt = 1
    /\ d_sent = 0
    /\ d_delays = << >>
    /\ d_result = "idle"
    /\ v_attempt = 1
    /\ v_sent = 0
    /\ v_delays = << >>
    /\ v_result = "idle"

\* _transcribe_direct: one request and what follows it
DirectAttempt ==
    /\ d_result = "running"
    /\ d_attempt <= retries
    /\ LET st == DirectStep(d_attempt, retries, outcomes[d_attempt])
       IN /\ d_sent' = d_sent + 1
          /\ IF st.next = "retry"
             THEN /\ d_delays' = Append(d_delays, st.delay)
                  /\ d_attempt' = d_attempt + 1
                  /\ UNCHANGED d_result
             ELSE /\ d_result' = st.next
                  /\ UNCHANGED << d_delays, d_attempt >>
    /\ UNCHANGED << retries, outcomes, v_attempt, v_sent, v_delays, v_result >>
    /\ UNCHANGED << pvars, svars, cvars, dvars, avars, kvars, mvars, gvars, tvars, hvars, xvars, nvars, ivars >>

\* _transcribe_direct: the loop ends without break or raise, which happens
\* with retries = 0 only; line 208 then reads `response`, which was never bound
DirectLoopExhausted ==
    /\ d_result = "running"
    /\ d_attempt > retries
    /\ d_result' = "UnboundLocalError"
    /\ UNCHANGED << retries, outcomes, d_attempt, d_sent, d_delays,
                    v_attempt, v_sent, v_delays, v_result >>
    /\ UNCHANGED << pvars, svars, cvars, dvars, avars, kvars, mvars, gvars, tvars, hvars, xvars, nvars, ivars >>

\* _post_with_retry: one request and what follows it
VisionAttempt ==
    /\ v_result = "running"
    /\ v_attempt <= retries
    /\ LET st == VisionStep(v_attempt, retries, outcomes[v_attempt])
       IN /\ v_sent' = v_sent + 1
          /\ IF st.next = "retry"
             THEN /\ v_delays' = Append(v_delays, st.delay)
                  /\ v_attempt' = v_attempt + 1
                  /\ UNCHANGED v_result
             ELSE /\ v_result' = st.next
                  /\ UNCHANGED << v_delays, v_attempt >>
    /\ UNCHANGED << retries, outcomes, d_attempt, d_sent, d_delays, d_result >>
    /\ UNCHANGED << pvars, svars, cvars, dvars, avars, kvars, mvars, gvars, tvars, hvars, xvars, nvars, ivars >>

\* _post_with_retry, line 140: the loop ends without return or raise
VisionLoopExhausted ==
    /\ v_result = "running"
    /\ v_attempt > retries
    /\ v_result' = "VisionServiceError"
    /\ UNCHANGED << retries, outcomes, d_attempt, d_sent, d_delays, d_result,
                    v_attempt, v_sent, v_delays >>
    /\ UNCHANGED << pvars, svars, cvars, dvars, avars, kvars, mvars, gvars, tvars, hvars, xvars, nvars, ivars >>

RetryNext ==
    \/ DirectAttempt
    \/ DirectLoopExhausted
    \/ VisionAttempt
    \/ VisionLoopExhausted

(***************************************************************************)
(* sorted(conversation) in build_docling_document, on its own.             *)
(***************************************************************************)
SpeakerS == ConversationItem(<<"a">>, Some(0), Some(6000), Some(1), Some(<<"S">>), << >>)

SortItems ==
    { ConversationItem(t, st, en, None, None, << >>) :
        t \in { <<"a">>, <<"b">> }, st \in {Some(0), Some(5000)},
        en \in {Some(6000), Some(7000)} }
    \cup { ConversationItem(<<"a">>, None, None, None, None, << >>),
           ConversationItem(<<"a">>, Some(0), None, None, None, << >>),
           ConversationItem(<<"b">>, None, Some(6000), None, None, << >>),
           ConversationItem(<<"c">>, None, None, None, None, << >>),
           SpeakerS }

SortInputs == UNION { [1..n -> SortItems] : n \in 0..MaxItems }

SortInit ==
    /\ sort_in \in SortInputs
    /\ sort_out = None

SortIdle ==
    /\ sort_in = << >>
    /\ sort_out = None

\* for i, item in enumerate(sorted(conversation))
SortConversation ==
    /\ sort_out = None
    /\ sort_out' = Some(Sorted(sort_in))
    /\ UNCHANGED sort_in
    /\ UNCHANGED << pvars, rvars, cvars, dvars, avars, kvars, mvars, gvars, tvars, hvars, xvars, nvars, ivars >>

(***************************************************************************)
(* ensure_wav_audio on its own: any source, exit code and diagnostic text. *)
(***************************************************************************)
ConvSources ==
    {Path("input", f, 0) : f \in FileNames}
    \cup {Path("temp_audio_source", TempName(TempSuffix(f)), 0) : f \in FileNames}

ConvInit ==
    /\ conv_source \in ConvSources
    /\ conv_rc \in ExitCodes
    /\ conv_stderr \in StderrTexts
    /\ conv_result = None

ConvIdle ==
    /\ conv_source = Path("input", << >>, 0)
    /\ conv_rc = 0
    /\ conv_stderr = << >>
    /\ conv_result = None

\* wav_path = ensure_wav_audio(source_path)
ConvertToWav ==
    /\ conv_result = None
    /\ conv_result' = Some(ensure_wav_audio(conv_source, TempWav, conv_rc, conv_stderr))
    /\ UNCHANGED << conv_source, conv_rc, conv_stderr >>
    /\ UNCHANGED << pvars, rvars, svars, dvars, avars, kvars, mvars, gvars, tvars, hvars, xvars, nvars, ivars >>

(***************************************************************************)
(* describe_frames on its own: any frames, timestamps and per-frame        *)
(* outcomes of the captioning.                                             *)
(***************************************************************************)
\* the most frames handed to describe_frames
MaxDescribed == 3

DescInputs ==
    UNION { [1..n -> [ts : DescTimestamps, cap : CaptionOutcomes]] : n \in 0..MaxDescribed }

DescInit ==
    /\ \E inp \in DescInputs :
          /\ desc_frames = [i \in DOMAIN inp |->
                               [frame |-> Path("frame", FrameName(i), 1), ts |-> inp[i].ts]]
          /\ desc_caps = [i \in DOMAIN inp |-> inp[i].cap]
    /\ desc_out = None

DescIdle ==
    /\ desc_frames = << >>
    /\ desc_caps = << >>
    /\ desc_out = None

\* items = vision_provider.describe_frames(frames)
DescribeFrames ==
    /\ desc_out = None
    /\ desc_out' = Some(describe_frames(desc_frames, desc_caps))
    /\ UNCHANGED << desc_frames, desc_caps >>
    /\ UNCHANGED << pvars, rvars, svars, cvars, avars, kvars, mvars, gvars, tvars, hvars, xvars, nvars, ivars >>

(***************************************************************************)
(* The specifications.                                                     *)
(***************************************************************************)
(***************************************************************************)
(* models/aliyun_bailian.py: AliyunBailianAsrClient._transcribe and the    *)
(* strategies it tries                                                     *)
(***************************************************************************)

\* AliyunBailianSettings.retries
retries_default == 3

\* a response body: whether it is JSON, whether the JSON value is an object,
\* its "code" member ("absent", "null" or a string), the segment list it
\* carries and whether it carries file_urls
Body(json, object, code, segments, file_urls) ==
    [json |-> json, object |-> object, code |-> code, segments |-> segments,
     file_urls |-> file_urls]

NotJson == Body(FALSE, FALSE, "absent", << >>, FALSE)
JsonList == Body(TRUE, FALSE, "absent", << >>, FALSE)

\* dict.get(key) for a member that is "absent", "null" or a string
Get(member) == IF member \in {"absent", "null"} THEN None ELSE Some(member)

\* Python's `a or b` on two optional numbers: a unless it is None or 0
PyOr(a, b) == IF ~IsNone(a) /\ Val(a) # 0 THEN a ELSE b

\* a word of a segment: "start" or else "start_time", "end" or else "end_time"
Word(text, start, start_time, end, end_time) ==
    [text |-> text, start |-> start, start_time |-> start_time, end |-> end,
     end_time |-> end_time]

\* a segment of a response: "start" or else "begin_time", "end" or else
\* "end_time"; a key the response does not carry is None
SegmentOf(text, start, begin_time, end, end_time, words) ==
    [text |-> text, start |-> start, begin_time |-> begin_time, end |-> end,
     end_time |-> end_time, words |-> words]

\* a segment with the keys "text", "start" and "end" only
Segment(text, start, end) == SegmentOf(text, start, None, end, None, << >>)

\* x.get(primary) or x.get(alternate), with the alternate looked up whenever a
\* primary value is there
GetPresentOr(a, b) == IF ~IsNone(a) THEN a ELSE b

\* result.get("segments") or result.get("sentences") or [], line 297
ResultSegments(result) ==
    IF ~IsNone(result.segments) /\ Val(result.segments) # << >> THEN Val(result.segments)
    ELSE IF ~IsNone(result.sentences) /\ Val(result.sentences) # << >> THEN Val(result.sentences)
    ELSE << >>

\* _parse_items on a segment list whose segments carry "text", "start", "end"
_parse_items(segments) ==
    [i \in 1..Len(segments) |->
        ConversationItem(Strip(segments[i].text),
                         PyOr(segments[i].start, segments[i].begin_time),
                         PyOr(segments[i].end, segments[i].end_time),
                         None, None,
                         [k \in 1..Len(segments[i].words) |->
                             LET word == segments[i].words[k]
                             IN ConversationWord(word.text,
                                                 PyOr(word.start, word.start_time),
                                                 PyOr(word.end, word.end_time))])]

HttpReply(status, body) == [kind |-> "response", status |-> status, body |-> body]
NoReply == [kind |-> "neterr", status |-> 0, body |-> NotJson]

\* _upload_file_to_dashscope, given what requests.post did
_upload_file_to_dashscope(reply) ==
    IF reply.kind = "neterr" THEN "AsrServiceError"
    ELSE IF reply.status # HTTP_OK THEN "AsrServiceError"
    ELSE IF ~reply.body.json THEN "AsrServiceError"
    ELSE IF ~reply.body.object THEN "AttributeError"
    ELSE IF ~reply.body.file_urls THEN "AsrServiceError"
    ELSE ""

\* _transcribe_with_sdk up to Transcription.async_call and the checks on its
\* response: the import fails, the SDK raises, or it responds
SdkSubmit(outcome) ==
    IF outcome.kind = "ImportError" THEN "ImportError"
    ELSE IF outcome.kind = "Exception" THEN "Exception"
    ELSE IF outcome.status # HTTP_OK THEN "AsrServiceError"
    ELSE IF ~outcome.task_id THEN "AsrServiceError"
    ELSE ""

\* the download of _parse_dashscope_result that treats undecodable JSON as an
\* error
DownloadRaisesOnBadJson(reply) ==
    IF reply.kind = "neterr" THEN [exc |-> "AsrServiceError", items |-> << >>]
    ELSE IF reply.status # HTTP_OK THEN [exc |-> "AsrServiceError", items |-> << >>]
    ELSE IF ~reply.body.json THEN [exc |-> "AsrServiceError", items |-> << >>]
    ELSE IF ~reply.body.object THEN [exc |-> "AttributeError", items |-> << >>]
    ELSE [exc |-> "", items |-> _parse_items(reply.body.segments)]

\* _parse_dashscope_result from requests.get on: the transcript download
Download(reply) ==
    IF reply.kind = "neterr" THEN [exc |-> "AsrServiceError", items |-> << >>]
    ELSE IF reply.status # HTTP_OK THEN [exc |-> "AsrServiceError", items |-> << >>]
    ELSE IF ~reply.body.json THEN [exc |-> "", items |-> << >>]
    ELSE IF ~reply.body.object THEN [exc |-> "AttributeError", items |-> << >>]
    ELSE [exc |-> "", items |-> _parse_items(reply.body.segments)]

\* a direct parse that does not look at the "code" member
DirectParseIgnoresCode(body) ==
    IF ~body.json THEN [exc |-> "AsrServiceError", items |-> << >>]
    ELSE IF ~body.object THEN [exc |-> "AttributeError", items |-> << >>]
    ELSE [exc |-> "", items |-> _parse_items(body.segments)]

\* _transcribe_direct after its loop, on the last response (status 200)
DirectParse(body) ==
    IF ~body.json THEN [exc |-> "AsrServiceError", items |-> << >>]
    ELSE IF ~body.object THEN [exc |-> "AttributeError", items |-> << >>]
    ELSE IF Get(body.code) \notin {None, Some("Success")}
    THEN [exc |-> "AsrServiceError", items |-> << >>]
    ELSE [exc |-> "", items |-> _parse_items(body.segments)]

\* the fallback that also follows an AsrServiceError of the upload path
FallbackOnAnyError(via, exc) ==
    IF via = "urls" THEN [next |-> "raise", type |-> "AsrServiceError"]
    ELSE [next |-> "direct", type |-> ""]

\* _transcribe: what the except clauses do with an exception of the
\* asynchronous path, entered with the caller's URLs (lines 70-79) or through
\* the upload (lines 88-95)
OnSdkError(via, exc) ==
    IF via = "urls" THEN [next |-> "raise", type |-> "AsrServiceError"]
    ELSE IF exc = "AsrServiceError" THEN [next |-> "raise", type |-> "AsrServiceError"]
    ELSE [next |-> "direct", type |-> ""]

SegHi == Segment(<<"h", "i">>, Some(500), Some(1200))
SegPadded == Segment(<<" ", "y", "o", " ">>, Some(0), Some(600))
SegmentLists == {<< >>, <<SegHi>>, <<SegPadded, SegHi>>}

\* the URL the upload answers with
UploadedUrl == <<"o","s","s">>

\* lists of URLs a caller hands over (None and [] are both the empty list)
HostedUrls == { << <<"u","1">> >>, << <<"u","2">>, <<"u","1">> >> }

\* _transcribe_with_sdk that submits the first URL only
FileUrlsFirstOnly(via, req) ==
    IF via = "urls" THEN << req.file_urls[1] >> ELSE << UploadedUrl >>

\* file_urls=list(file_urls) of Transcription.async_call, line 117: the caller's
\* list (line 72) or the one the upload returned (lines 157-159)
FileUrls(via, req) ==
    IF via = "urls" THEN req.file_urls ELSE << UploadedUrl >>

AsrRequests ==
    {[entry |-> "transcribe_path", data |-> TRUE, file_urls |-> << >>],
     [entry |-> "transcribe_bytes", data |-> TRUE, file_urls |-> << >>],
     [entry |-> "transcribe_bytes", data |-> FALSE, file_urls |-> << >>],
     [entry |-> "transcribe_remote_urls", data |-> FALSE, file_urls |-> << >>]}
    \cup {[entry |-> "transcribe_bytes", data |-> TRUE, file_urls |-> u] : u \in HostedUrls}
    \cup {[entry |-> "transcribe_remote_urls", data |-> FALSE, file_urls |-> u] :
             u \in HostedUrls}

UploadReplies ==
    {NoReply, HttpReply(500, NotJson)}
        \cup {HttpReply(200, b) : b \in {NotJson, JsonList,
                                         Body(TRUE, TRUE, "absent", << >>, FALSE),
                                         Body(TRUE, TRUE, "absent", << >>, TRUE)}}

SubmitOutcomes ==
    {[kind |-> "ImportError", status |-> 0, task_id |-> FALSE],
     [kind |-> "Exception", status |-> 0, task_id |-> FALSE]}
        \cup {[kind |-> "response", status |-> st, task_id |-> t] :
                st \in {200, 400}, t \in BOOLEAN}

\* Transcription.wait: the SDK raises, or responds with an output that holds
\* segments, no results, a result without transcription_url, or one with it
WaitOutcomes ==
    {[kind |-> "Exception", status |-> 0, output |-> "", segments |-> << >>]}
        \cup {[kind |-> "response", status |-> 500, output |-> "no_results",
               segments |-> << >>]}
        \cup {[kind |-> "response", status |-> 200, output |-> o, segments |-> << >>] :
                o \in {"no_results", "no_url", "url"}}
        \cup {[kind |-> "response", status |-> 200, output |-> "segments",
               segments |-> <<SegHi>>]}

DownloadReplies ==
    {NoReply, HttpReply(404, NotJson)}
        \cup {HttpReply(200, b) : b \in {NotJson, JsonList}}
        \cup {HttpReply(200, Body(TRUE, TRUE, "absent", sg, FALSE)) : sg \in SegmentLists}

DirectBodies ==
    {NotJson, JsonList}
        \cup {Body(TRUE, TRUE, c, sg, FALSE) :
                c \in {"absent", "null", "Success", "Failure"}, sg \in SegmentLists}

DirectReplies ==
    {NoReply, HttpReply(500, NotJson), HttpReply(404, NotJson)}
        \cup {HttpReply(200, b) : b \in DirectBodies}

Did(op, outcome, exc) == [op |-> op, outcome |-> outcome, exc |-> exc]

AsrInit ==
    /\ a_pc = "idle"
    /\ a_req = [entry |-> "", data |-> FALSE, file_urls |-> << >>]
    /\ a_via = ""
    /\ a_urls = None
    /\ a_attempt = 1
    /\ a_trace = << >>
    /\ a_return = None
    /\ a_raised = None

AsrIdle == AsrInit

\* transcribe_path, transcribe_bytes, transcribe_remote_urls and _transcribe
\* up to the first request
Transcribe ==
    /\ a_pc = "idle"
    /\ \E req \in AsrRequests :
          /\ a_req' = req
          /\ IF req.entry = "transcribe_remote_urls" /\ req.file_urls = << >>
             THEN /\ a_pc' = "done"
                  /\ a_raised' = Some("AsrServiceError")
                  /\ UNCHANGED a_via
             ELSE IF req.file_urls # << >>
             THEN /\ a_pc' = "submit"
                  /\ a_via' = "urls"
                  /\ UNCHANGED a_raised
             ELSE IF ~req.data
             THEN /\ a_pc' = "done"
                  /\ a_raised' = Some("AsrServiceError")
                  /\ UNCHANGED a_via
             ELSE /\ a_pc' = "upload"
                  /\ a_via' = "upload"
                  /\ UNCHANGED a_raised
    /\ UNCHANGED << a_urls, a_attempt, a_trace, a_return >>
    /\ UNCHANGED << pvars, rvars, svars, cvars, dvars, kvars, mvars, gvars, tvars, hvars, xvars, nvars, ivars >>

\* an exception of the asynchronous path reaches the except clauses of
\* _transcribe
SdkRaised(exc) ==
    LET h == OnSdkError(a_via, exc)
    IN IF h.next = "raise"
       THEN a_pc' = "done" /\ a_raised' = Some(h.type)
       ELSE a_pc' = "direct" /\ UNCHANGED a_raised

\* _transcribe_with_sdk_upload: the upload
Upload ==
    /\ a_pc = "upload"
    /\ \E reply \in UploadReplies :
          LET exc == _upload_file_to_dashscope(reply)
          IN /\ a_trace' = Append(a_trace, Did("upload", reply, exc))
             /\ IF exc = ""
                THEN a_pc' = "submit" /\ UNCHANGED a_raised
                ELSE SdkRaised(exc)
    /\ UNCHANGED << a_req, a_via, a_urls, a_attempt, a_return >>
    /\ UNCHANGED << pvars, rvars, svars, cvars, dvars, kvars, mvars, gvars, tvars, hvars, xvars, nvars, ivars >>

\* _transcribe_with_sdk: the import and Transcription.async_call
Submit ==
    /\ a_pc = "submit"
    /\ \E outcome \in SubmitOutcomes :
          LET exc == SdkSubmit(outcome)
          IN /\ a_trace' = Append(a_trace, Did("async_call", outcome, exc))
             /\ IF exc = ""
                THEN a_pc' = "wait" /\ UNCHANGED a_raised
                ELSE SdkRaised(exc)
    /\ a_urls' = Some(FileUrls(a_via, a_req))
    /\ UNCHANGED << a_req, a_via, a_attempt, a_return >>
    /\ UNCHANGED << pvars, rvars, svars, cvars, dvars, kvars, mvars, gvars, tvars, hvars, xvars, nvars, ivars >>

\* _transcribe_with_sdk: Transcription.wait, and _parse_dashscope_result up
\* to the download
Wait ==
    /\ a_pc = "wait"
    /\ \E outcome \in WaitOutcomes :
          LET exc == IF outcome.kind = "Exception" THEN "Exception"
                     ELSE IF outcome.status # HTTP_OK THEN "AsrServiceError"
                     ELSE ""
          IN /\ a_trace' = Append(a_trace, Did("wait", outcome, exc))
             /\ IF exc # ""
                THEN SdkRaised(exc) /\ UNCHANGED a_return
                ELSE IF outcome.output = "segments"
                THEN /\ a_pc' = "done"
                     /\ a_return' = Some(_parse_items(outcome.segments))
                     /\ UNCHANGED a_raised
                ELSE IF outcome.output = "url"
                THEN a_pc' = "download" /\ UNCHANGED << a_return, a_raised >>
                ELSE /\ a_pc' = "done"
                     /\ a_return' = Some(<< >>)
                     /\ UNCHANGED a_raised
    /\ UNCHANGED << a_req, a_via, a_urls, a_attempt >>
    /\ UNCHANGED << pvars, rvars, svars, cvars, dvars, kvars, mvars, gvars, tvars, hvars, xvars, nvars, ivars >>

\* _parse_dashscope_result: the download of the transcript
DownloadTranscript ==
    /\ a_pc = "download"
    /\ \E reply \in DownloadReplies :
          LET r == Download(reply)
          IN /\ a_trace' = Append(a_trace, Did("download", reply, r.exc))
             /\ IF r.exc = ""
                THEN /\ a_pc' = "done"
                     /\ a_return' = Some(r.items)
                     /\ UNCHANGED a_raised
                ELSE SdkRaised(r.exc) /\ UNCHANGED a_return
    /\ UNCHANGED << a_req, a_via, a_urls, a_attempt >>
    /\ UNCHANGED << pvars, rvars, svars, cvars, dvars, kvars, mvars, gvars, tvars, hvars, xvars, nvars, ivars >>

\* _transcribe_direct: one request of the loop and, after the last one, the
\* parsing of the response
DirectRequest ==
    /\ a_pc = "direct"
    /\ \E reply \in DirectReplies :
          LET st == DirectStep(a_attempt, retries_default, reply)
              r == DirectParse(reply.body)
              exc == IF st.next = "retry" THEN "retry"
                     ELSE IF st.next = "parse" THEN r.exc
                     ELSE st.next
          IN /\ a_trace' = Append(a_trace, Did("direct", reply, exc))
             /\ IF st.next = "retry"
                THEN /\ a_attempt' = a_attempt + 1
                     /\ UNCHANGED << a_pc, a_return, a_raised >>
                ELSE IF exc # ""
                THEN /\ a_pc' = "done"
                     /\ a_raised' = Some(exc)
                     /\ UNCHANGED << a_attempt, a_return >>
                ELSE /\ a_pc' = "done"
                     /\ a_return' = Some(r.items)
                     /\ UNCHANGED << a_attempt, a_raised >>
    /\ UNCHANGED << a_req, a_via, a_urls >>
    /\ UNCHANGED << pvars, rvars, svars, cvars, dvars, kvars, mvars, gvars, tvars, hvars, xvars, nvars, ivars >>

AsrNext ==
    \/ Transcribe
    \/ Upload
    \/ Submit
    \/ Wait
    \/ DownloadTranscript
    \/ DirectRequest

(***************************************************************************)
(* media/video.py: extract_keyframes_with_timestamps, run by run           *)
(***************************************************************************)

\* a cleanup that deletes nothing
CleanupKeepsFrames(files) == files

\* _cleanup_frames: every frame_*.jpg of the directory is unlinked
_cleanup_frames(files) == {f \in files : f.kind # "frame"}

\* the directory after a pass wrote n frames through the pattern
\* frame_%04d.jpg, replacing files of the same name
WriteFrames(files, pass, n) ==
    {f \in files : \A g \in FrameFiles(pass, n) : g.name # f.name}
        \cup FrameFiles(pass, n)

\* sorted(tmp_dir.glob("frame_*.jpg"))
GlobFrames(files) ==
    IF files = {} THEN << >>
    ELSE CHOOSE l \in [1..Cardinality(files) -> files] :
            \A i, j \in DOMAIN l : i < j => StrLt(l[i].name, l[j].name)

SCENE == <<"s","c","e","n","e">>
UNIFORM == <<"f","p","s","=","1">>

\* one run of _run_ffmpeg_extract: its filter, what the process did and the
\* frame files in the directory when it started
Run(vf, outcome, before) == [vf |-> vf, outcome |-> outcome, before |-> before]

KeyInit ==
    /\ k_pc = "start"
    /\ k_files = {}
    /\ k_pts = << >>
    /\ k_runs = << >>
    /\ k_result = None
    /\ k_raised = None

KeyIdle ==
    /\ k_pc = "idle"
    /\ k_files = {}
    /\ k_pts = << >>
    /\ k_runs = << >>
    /\ k_result = None
    /\ k_raised = None

\* lines 72-79: the source is looked up and the directory made
ExtractBegin ==
    /\ k_pc = "start"
    /\ \E exists \in BOOLEAN :
          IF exists
          THEN k_pc' = "scene" /\ UNCHANGED k_raised
          ELSE k_pc' = "done" /\ k_raised' = Some("FileNotFoundError")
    /\ UNCHANGED << k_files, k_pts, k_runs, k_result >>
    /\ UNCHANGED << pvars, rvars, svars, cvars, dvars, avars, mvars, gvars, tvars, hvars, xvars, nvars, ivars >>

\* lines 81-83: the pass with the scene filter
ScenePass ==
    /\ k_pc = "scene"
    /\ \E o \in RunOutcomes(1) :
          /\ k_runs' = Append(k_runs, Run(SCENE, o, k_files))
          /\ k_files' = WriteFrames(k_files, 1, o.n)
          /\ IF o.ok
             THEN k_pc' = "glob" /\ k_pts' = o.pts
             ELSE k_pc' = "except" /\ UNCHANGED k_pts
    /\ UNCHANGED << k_result, k_raised >>
    /\ UNCHANGED << pvars, rvars, svars, cvars, dvars, avars, mvars, gvars, tvars, hvars, xvars, nvars, ivars >>

\* lines 84-90: the except clause cleans up and runs the uniform filter
UniformAfterFailure ==
    /\ k_pc = "except"
    /\ \E o \in RunOutcomes(2) :
          LET cleaned == _cleanup_frames(k_files)
          IN /\ k_runs' = Append(k_runs, Run(UNIFORM, o, cleaned))
             /\ k_files' = WriteFrames(cleaned, 2, o.n)
             /\ IF o.ok
                THEN k_pc' = "glob" /\ k_pts' = o.pts /\ UNCHANGED k_raised
                ELSE /\ k_pc' = "done"
                     /\ k_raised' = Some("RuntimeError")
                     /\ UNCHANGED k_pts
    /\ UNCHANGED k_result
    /\ UNCHANGED << pvars, rvars, svars, cvars, dvars, avars, mvars, gvars, tvars, hvars, xvars, nvars, ivars >>

\* lines 93-100: no frame file after the try statement
UniformAfterEmpty ==
    /\ k_pc = "glob"
    /\ GlobFrames(k_files) = << >>
    /\ \E o \in RunOutcomes(Len(k_runs) + 1) :
          LET cleaned == _cleanup_frames(k_files)
          IN /\ k_runs' = Append(k_runs, Run(UNIFORM, o, cleaned))
             /\ k_files' = WriteFrames(cleaned, Len(k_runs) + 1, o.n)
             /\ IF o.ok
                THEN k_pc' = "pairs" /\ k_pts' = o.pts /\ UNCHANGED k_raised
                ELSE /\ k_pc' = "done"
                     /\ k_raised' = Some("RuntimeError")
                     /\ UNCHANGED k_pts
    /\ UNCHANGED k_result
    /\ UNCHANGED << pvars, rvars, svars, cvars, dvars, avars, mvars, gvars, tvars, hvars, xvars, nvars, ivars >>

\* lines 102-125: the pairs returned
PairFrames ==
    /\ \/ k_pc = "pairs"
       \/ k_pc = "glob" /\ GlobFrames(k_files) # << >>
    /\ LET globbed == GlobFrames(k_files)
       IN k_result' = Some(IF globbed = << >> THEN << >>
                           ELSE Downsample(ZipPairs(globbed, k_pts), max_frames_default))
    /\ k_pc' = "done"
    /\ UNCHANGED << k_files, k_pts, k_runs, k_raised >>
    /\ UNCHANGED << pvars, rvars, svars, cvars, dvars, avars, mvars, gvars, tvars, hvars, xvars, nvars, ivars >>

ExtractNext ==
    \/ ExtractBegin
    \/ ScenePass
    \/ UniformAfterFailure
    \/ UniformAfterEmpty
    \/ PairFrames

(***************************************************************************)
(* media/video.py, lines 119-122: the downsampling on its own              *)
(***************************************************************************)

\* N pairs: frame i of the uniform pass with its timestamp
PairList(N) == [i \in 1..N |-> << Path("frame", FrameName(i), 2), (i - 1) * Scale >>]

SampleInit ==
    /\ m_pairs \in {PairList(N) : N \in 0..MaxPairs}
    /\ m_max \in 1..MaxKept
    /\ m_out = None

SampleIdle ==
    /\ m_pairs = << >>
    /\ m_max = 1
    /\ m_out = None

\* lines 119-125 of extract_keyframes_with_timestamps
DownsamplePairs ==
    /\ m_out = None
    /\ m_out' = Some(Downsample(m_pairs, m_max))
    /\ UNCHANGED << m_pairs, m_max >>
    /\ UNCHANGED << pvars, rvars, svars, cvars, dvars, avars, kvars, gvars, tvars, hvars, xvars, nvars, ivars >>

(***************************************************************************)
(* a silent video whose keyframes are all captioned: describe_frames, then *)
(* build_docling_document                                                  *)
(***************************************************************************)

\* k timestamps, in 1/Scale seconds, from `first` on and `gap` apart
EvenTimestamps(k, first, gap) == [i \in 1..k |-> first + (i - 1) * gap]

KeyframeTimestamps ==
    {EvenTimestamps(k, first, gap) :
        k \in 1..max_frames_default, first \in {0, 200}, gap \in {500, 1000, 3500, 3600}}
    \cup { <<0, 3500, 7200>> }

Mp4 == <<"c",".","m","p","4">>

ScenarioInit ==
    /\ \E ts \in KeyframeTimestamps :
          g_frames = [i \in DOMAIN ts |->
                         [frame |-> Path("frame", FrameName(i), 1), ts |-> ts[i]]]
    /\ g_items = << >>
    /\ g_doc = None

ScenarioIdle ==
    /\ g_frames = << >>
    /\ g_items = << >>
    /\ g_doc = None

\* _describe_video_frames with every frame captioned, conversation.extend and
\* build_docling_document, for a video without speech items
CaptionAndBuild ==
    /\ g_doc = None
    /\ LET caps == [i \in DOMAIN g_frames |-> [kind |-> "text", text |-> <<"c","a","t">>]]
           described == describe_frames(g_frames, caps).items
           conv == << >> \o described
           r == build_docling_document(Mp4, <<"v","i","d","e","o","/","m","p","4">>,
                                       [sha256 |-> <<1>>], conv, None)
       IN /\ r.ok
          /\ g_items' = described
          /\ g_doc' = r.doc
    /\ UNCHANGED g_frames
    /\ UNCHANGED << pvars, rvars, svars, cvars, dvars, avars, kvars, mvars, tvars, hvars, xvars, nvars, ivars >>

(***************************************************************************)
(* one item from the response to the document line: _parse_items,          *)
(* ConversationItem.to_string, build_docling_document                      *)
(***************************************************************************)

HelloWorld == <<"h","e","l","l","o"," ","w","o","r","l","d">>

\* bounds of a segment or an item, as fixed-point numbers: 0.0, 0.5, 1.2 (the
\* seconds a response carries), 1200 and 723004 (milliseconds)
RenderTimes == {None, Some(0), Some(500), Some(1200), Some(OfInt(1200)), Some(OfInt(723004))}

RenderSegments ==
    {Segment(tx, st, en) : tx \in {HelloWorld, <<" ","h","i">>},
                           st \in RenderTimes, en \in {None, Some(1200), Some(OfInt(1200))}}

RenderTexts == {HelloWorld, << >>, KEYFRAME_PREFIX \o <<"f","r","a","m","e","=","1">>}

RenderItems ==
    {ConversationItem(tx, st, en, None, sp, << >>) :
        tx \in RenderTexts, st \in RenderTimes, en \in {None, Some(OfInt(1200))},
        sp \in {None, Some(<<"A">>)}}

Wav == <<"a",".","w","a","v">>

RenderInit ==
    /\ t_seg = None
    /\ t_item = None
    /\ t_lines = None

RenderIdle ==
    /\ t_seg = None
    /\ t_item = None
    /\ t_lines = None

\* _parse_items on a response with one segment
ParseSegment ==
    /\ t_item = None
    /\ \E seg \in RenderSegments :
          /\ t_seg' = Some(seg)
          /\ t_item' = Some(_parse_items(<< seg >>)[1])
    /\ UNCHANGED t_lines
    /\ UNCHANGED << pvars, rvars, svars, cvars, dvars, avars, kvars, mvars, gvars, hvars, xvars, nvars, ivars >>

\* an item a provider hands over as it is
ProvideItem ==
    /\ t_item = None
    /\ \E item \in RenderItems : t_item' = Some(item)
    /\ UNCHANGED << t_seg, t_lines >>
    /\ UNCHANGED << pvars, rvars, svars, cvars, dvars, avars, kvars, mvars, gvars, hvars, xvars, nvars, ivars >>

\* build_docling_document on a conversation of that one item
BuildLines ==
    /\ t_item # None
    /\ t_lines = None
    /\ LET r == build_docling_document(Wav, <<"a","u","d","i","o","/","w","a","v">>,
                                       [sha256 |-> <<1>>], << Val(t_item) >>, None)
       IN r.ok /\ t_lines' = Some(Val(r.doc).texts)
    /\ UNCHANGED << t_seg, t_item >>
    /\ UNCHANGED << pvars, rvars, svars, cvars, dvars, avars, kvars, mvars, gvars, hvars, xvars, nvars, ivars >>

RenderNext ==
    \/ ParseSegment
    \/ ProvideItem
    \/ BuildLines

(***************************************************************************)
(* two runs side by side, up to the fingerprint: validate_input and        *)
(* _compute_binary_hash                                                    *)
(***************************************************************************)

\* existing inputs: files, directories or files that cannot be read (readable
\* is FALSE), and buffers
HashInputs ==
    [kind : {"path"}, name : {<<"a",".","w","a","v">>, <<"c",".","m","p","4">>},
     exists : {TRUE}, data : Contents, filename : {None}, readable : BOOLEAN]
    \cup [kind : {"bytes"}, name : {<< >>}, exists : {FALSE}, data : Contents,
          filename : {Some(<<"a",".","w","a","v">>), Some(<<"c",".","m","p","4">>)},
          readable : {TRUE}]

HashInit ==
    /\ h_first \in HashInputs
    /\ h_second \in HashInputs
    /\ h_hashes = None

HashIdle ==
    /\ h_first = None
    /\ h_second = None
    /\ h_hashes = None

\* transcribe_with_artifacts, lines 80-82, in each of the two runs
FingerprintBoth ==
    /\ h_hashes = None
    /\ LET a == validate_input(h_first)
           b == validate_input(h_second)
       IN /\ a.ok /\ b.ok
          /\ h_hashes' = Some(<< _compute_binary_hash(Val(a.backend)),
                                 _compute_binary_hash(Val(b.backend)) >>)
    /\ UNCHANGED << h_first, h_second >>
    /\ UNCHANGED << pvars, rvars, svars, cvars, dvars, avars, kvars, mvars, gvars, tvars, xvars, nvars, ivars >>

(***************************************************************************)
(* Two clients of the speech-to-text service in one process, each in       *)
(* _transcribe_with_sdk (models/aliyun_bailian.py, lines 100-119), their    *)
(* statements interleaved.                                                  *)
(***************************************************************************)
MaxJobs == 2

Clients == {1, 2}

\* AliyunBailianSettings: the fields _transcribe_with_sdk hands to the module
ClientSettings ==
    [api_key : {<<"s","k","1">>, <<"s","k","2">>},
     base_http_api_url : {<<"u","1">>, <<"u","2">>}]

\* the attributes of the module before any client has written them
DashscopeDefaults == [base_http_api_url |-> << >>, api_key |-> << >>]

\* Transcription.async_call(model=..., file_urls=..., parameters=...), lines
\* 115-119: no key and no address is passed, the request is made with the
\* attributes of the module
async_call(c, module) ==
    [client |-> c, api_key |-> module.api_key, base_http_api_url |-> module.base_http_api_url]

ClientsInit ==
    /\ dashscope = DashscopeDefaults
    /\ cl_settings \in [Clients -> ClientSettings]
    /\ cl_settings[1].api_key = <<"s","k","1">>
    /\ cl_pc = [c \in Clients |-> "idle"]
    /\ cl_jobs = [c \in Clients |-> 0]
    /\ submitted = << >>

ClientsIdle ==
    /\ dashscope = DashscopeDefaults
    /\ cl_settings = [c \in Clients |-> [api_key |-> <<"s","k","1">>, base_http_api_url |-> <<"u","1">>]]
    /\ cl_pc = [c \in Clients |-> "idle"]
    /\ cl_jobs = [c \in Clients |-> 0]
    /\ submitted = << >>

\* _transcribe_with_sdk is entered, lines 100-103
EnterSdk(c) ==
    /\ cl_pc[c] = "idle"
    /\ cl_jobs[c] < MaxJobs
    /\ cl_pc' = [cl_pc EXCEPT ![c] = "set_url"]
    /\ UNCHANGED << dashscope, cl_settings, cl_jobs, submitted >>
    /\ UNCHANGED << pvars, rvars, svars, cvars, dvars, avars, kvars, mvars, gvars, tvars, hvars, nvars, ivars >>

\* dashscope.base_http_api_url = self.settings.base_http_api_url, line 105
SetBaseUrl(c) ==
    /\ cl_pc[c] = "set_url"
    /\ dashscope' = [dashscope EXCEPT !.base_http_api_url = cl_settings[c].base_http_api_url]
    /\ cl_pc' = [cl_pc EXCEPT ![c] = "set_key"]
    /\ UNCHANGED << cl_settings, cl_jobs, submitted >>
    /\ UNCHANGED << pvars, rvars, svars, cvars, dvars, avars, kvars, mvars, gvars, tvars, hvars, nvars, ivars >>

\* dashscope.api_key = self.settings.api_key, line 106
SetApiKey(c) ==
    /\ cl_pc[c] = "set_key"
    /\ dashscope' = [dashscope EXCEPT !.api_key = cl_settings[c].api_key]
    /\ cl_pc' = [cl_pc EXCEPT ![c] = "call"]
    /\ UNCHANGED << cl_settings, cl_jobs, submitted >>
    /\ UNCHANGED << pvars, rvars, svars, cvars, dvars, avars, kvars, mvars, gvars, tvars, hvars, nvars, ivars >>

\* task_response = Transcription.async_call(...), lines 115-119
AsyncCall(c) ==
    /\ cl_pc[c] = "call"
    /\ submitted' = Append(submitted, async_call(c, dashscope))
    /\ cl_jobs' = [cl_jobs EXCEPT ![c] = @ + 1]
    /\ cl_pc' = [cl_pc EXCEPT ![c] = "idle"]
    /\ UNCHANGED << dashscope, cl_settings >>
    /\ UNCHANGED << pvars, rvars, svars, cvars, dvars, avars, kvars, mvars, gvars, tvars, hvars, nvars, ivars >>

(***************************************************************************)
(* _parse_items (models/aliyun_bailian.py, lines 296-318) on the result    *)
(* member of a response.                                                    *)
(***************************************************************************)
\* the values of a time key: absent, 0.0, 0.5 and 1.2 seconds
ParseTimes == {None, Some(0), Some(500), Some(1200)}

ParseWords ==
    {<< >>,
     << Word(<<"h","i">>, Some(0), None, Some(500), None) >>,
     << Word(<<"h","i">>, None, Some(500), None, Some(1200)) >>,
     << Word(<<"h","i">>, Some(0), Some(500), Some(1200), None) >>}

ParseSegmentsOf ==
    {SegmentOf(<<"h","i">>, st, bt, en, et, ws) :
        st \in ParseTimes, bt \in {None, Some(500)}, en \in {None, Some(0), Some(1200)},
        et \in {None, Some(1200)}, ws \in ParseWords}

\* the result member: "segments" and "sentences", each absent, empty or a list
ParseResults ==
    {[segments |-> Some(<< g >>), sentences |-> None] : g \in ParseSegmentsOf}
    \cup {[segments |-> sg, sentences |-> Some(<< SegHi, g >>)] :
            sg \in {None, Some(<< >>), Some(<< SegPadded >>)},
            g \in {SegmentOf(<<"h","i">>, st, Some(500), Some(1200), None, << >>) :
                      st \in ParseTimes}}

ParseInit ==
    /\ n_result \in ParseResults
    /\ n_items = None

ParseIdle ==
    /\ n_result = None
    /\ n_items = None

\* items = self._parse_items(result)
ParseItems ==
    /\ n_items = None
    /\ n_items' = Some(_parse_items(ResultSegments(n_result)))
    /\ UNCHANGED n_result
    /\ UNCHANGED << pvars, rvars, svars, cvars, dvars, avars, kvars, mvars, gvars, tvars, hvars, xvars, ivars >>

(***************************************************************************)
(* The module-level API (api.py): threads calling transcribe_file,          *)
(* transcribe_bytes and their *_with_artifacts variants, each of which      *)
(* begins with _get_pipeline (lines 19-23).                                 *)
(***************************************************************************)
MaxApiCalls == 2

Threads == {1, 2}

ApiInit ==
    /\ _pipeline_singleton = None
    /\ instances = 0
    /\ th_pc = [t \in Threads |-> "idle"]
    /\ th_calls = [t \in Threads |-> 0]
    /\ th_new = [t \in Threads |-> None]
    /\ used = << >>

ApiIdle == ApiInit

\* a call of the module API enters _get_pipeline, lines 28, 35, 43, 51
ApiCall(t) ==
    /\ th_pc[t] = "idle"
    /\ th_calls[t] < MaxApiCalls
    /\ th_calls' = [th_calls EXCEPT ![t] = @ + 1]
    /\ th_pc' = [th_pc EXCEPT ![t] = "check"]
    /\ UNCHANGED << _pipeline_singleton, instances, th_new, used >>
    /\ UNCHANGED << pvars, rvars, svars, cvars, dvars, avars, kvars, mvars, gvars, tvars, hvars, xvars, nvars >>

\* if _pipeline_singleton is None, line 21
CheckSingleton(t) ==
    /\ th_pc[t] = "check"
    /\ th_pc' = [th_pc EXCEPT ![t] = IF IsNone(_pipeline_singleton) THEN "construct"
                                     ELSE "return"]
    /\ UNCHANGED << _pipeline_singleton, instances, th_calls, th_new, used >>
    /\ UNCHANGED << pvars, rvars, svars, cvars, dvars, avars, kvars, mvars, gvars, tvars, hvars, xvars, nvars >>

\* AsrPipelineLite(), the right-hand side of line 22: the constructor returns a
\* new instance, or raises (no API key) and the call ends
ConstructPipeline(t) ==
    /\ th_pc[t] = "construct"
    /\ \E ok \in BOOLEAN :
          IF ok
          THEN /\ instances' = instances + 1
               /\ th_new' = [th_new EXCEPT ![t] = Some(instances + 1)]
               /\ th_pc' = [th_pc EXCEPT ![t] = "store"]
          ELSE /\ th_pc' = [th_pc EXCEPT ![t] = "idle"]
               /\ UNCHANGED << instances, th_new >>
    /\ UNCHANGED << _pipeline_singleton, th_calls, used >>
    /\ UNCHANGED << pvars, rvars, svars, cvars, dvars, avars, kvars, mvars, gvars, tvars, hvars, xvars, nvars >>

\* _pipeline_singleton = ..., the assignment of line 22
StoreSingleton(t) ==
    /\ th_pc[t] = "store"
    /\ _pipeline_singleton' = th_new[t]
    /\ th_new' = [th_new EXCEPT ![t] = None]
    /\ th_pc' = [th_pc EXCEPT ![t] = "return"]
    /\ UNCHANGED << instances, th_calls, used >>
    /\ UNCHANGED << pvars, rvars, svars, cvars, dvars, avars, kvars, mvars, gvars, tvars, hvars, xvars, nvars >>

\* return _pipeline_singleton, line 23, and the call of the pipeline on it
ReturnSingleton(t) ==
    /\ th_pc[t] = "return"
    /\ used' = Append(used, [thread |-> t, pipeline |-> Val(_pipeline_singleton)])
    /\ th_pc' = [th_pc EXCEPT ![t] = "idle"]
    /\ UNCHANGED << _pipeline_singleton, instances, th_calls, th_new >>
    /\ UNCHANGED << pvars, rvars, svars, cvars, dvars, avars, kvars, mvars, gvars, tvars, hvars, xvars, nvars >>

vars == << pvars, rvars, svars, cvars, dvars, avars, kvars, mvars, gvars, tvars, hvars, xvars, nvars, ivars >>

PipelineIdle == PipelineInit /\ vision_provider = "None"

\* the pipeline
Init == PipelineInit /\ RetryIdle /\ SortIdle /\ ConvIdle /\ DescIdle /\ AsrIdle /\ KeyIdle /\ SampleIdle /\ ScenarioIdle /\ RenderIdle /\ HashIdle /\ ClientsIdle /\ ParseIdle /\ ApiIdle

Next == PipelineNext

Spec == Init /\ [][Next]_vars

\* the retry loops
InitRetry == PipelineIdle /\ RetryInit /\ SortIdle /\ ConvIdle /\ DescIdle /\ AsrIdle /\ KeyIdle /\ SampleIdle /\ ScenarioIdle /\ RenderIdle /\ HashIdle /\ ClientsIdle /\ ParseIdle /\ ApiIdle

NextRetry == RetryNext

SpecRetry == InitRetry /\ [][NextRetry]_vars

\* the sort
InitSort == PipelineIdle /\ RetryIdle /\ SortInit /\ ConvIdle /\ DescIdle /\ AsrIdle /\ KeyIdle /\ SampleIdle /\ ScenarioIdle /\ RenderIdle /\ HashIdle /\ ClientsIdle /\ ParseIdle /\ ApiIdle

NextSort == SortConversation

SpecSort == InitSort /\ [][NextSort]_vars

\* the conversion
InitConvert == PipelineIdle /\ RetryIdle /\ SortIdle /\ ConvInit /\ DescIdle /\ AsrIdle /\ KeyIdle /\ SampleIdle /\ ScenarioIdle /\ RenderIdle /\ HashIdle /\ ClientsIdle /\ ParseIdle /\ ApiIdle

NextConvert == ConvertToWav

SpecConvert == InitConvert /\ [][NextConvert]_vars

\* the captioning
InitDescribe == PipelineIdle /\ RetryIdle /\ SortIdle /\ ConvIdle /\ DescInit /\ AsrIdle /\ KeyIdle /\ SampleIdle /\ ScenarioIdle /\ RenderIdle /\ HashIdle /\ ClientsIdle /\ ParseIdle /\ ApiIdle

NextDescribe == DescribeFrames

SpecDescribe == InitDescribe /\ [][NextDescribe]_vars

\* the speech-to-text client
InitAsr == PipelineIdle /\ RetryIdle /\ SortIdle /\ ConvIdle /\ DescIdle /\ AsrInit /\ KeyIdle /\ SampleIdle /\ ScenarioIdle /\ RenderIdle /\ HashIdle /\ ClientsIdle /\ ParseIdle /\ ApiIdle

NextAsr == AsrNext

SpecAsr == InitAsr /\ [][NextAsr]_vars

\* the keyframe extraction
InitExtract ==
    PipelineIdle /\ RetryIdle /\ SortIdle /\ ConvIdle /\ DescIdle /\ AsrIdle /\ KeyInit
        /\ SampleIdle /\ ScenarioIdle /\ RenderIdle /\ HashIdle /\ ClientsIdle /\ ParseIdle /\ ApiIdle

NextExtract == ExtractNext

SpecExtract == InitExtract /\ [][NextExtract]_vars

\* the downsampling
InitSample ==
    PipelineIdle /\ RetryIdle /\ SortIdle /\ ConvIdle /\ DescIdle /\ AsrIdle /\ KeyIdle
        /\ SampleInit /\ ScenarioIdle /\ RenderIdle /\ HashIdle /\ ClientsIdle /\ ParseIdle /\ ApiIdle

NextSample == DownsamplePairs

SpecSample == InitSample /\ [][NextSample]_vars

\* the captioned silent video
InitScenario ==
    PipelineIdle /\ RetryIdle /\ SortIdle /\ ConvIdle /\ DescIdle /\ AsrIdle /\ KeyIdle
        /\ SampleIdle /\ ScenarioInit /\ RenderIdle /\ HashIdle /\ ClientsIdle /\ ParseIdle /\ ApiIdle

NextScenario == CaptionAndBuild

SpecScenario == InitScenario /\ [][NextScenario]_vars

\* the rendering of one item
InitRender ==
    PipelineIdle /\ RetryIdle /\ SortIdle /\ ConvIdle /\ DescIdle /\ AsrIdle /\ KeyIdle
        /\ SampleIdle /\ ScenarioIdle /\ RenderInit /\ HashIdle /\ ClientsIdle /\ ParseIdle /\ ApiIdle

NextRender == RenderNext

SpecRender == InitRender /\ [][NextRender]_vars

\* the fingerprints of two runs
InitHash ==
    PipelineIdle /\ RetryIdle /\ SortIdle /\ ConvIdle /\ DescIdle /\ AsrIdle /\ KeyIdle
        /\ SampleIdle /\ ScenarioIdle /\ RenderIdle /\ HashInit /\ ClientsIdle /\ ParseIdle /\ ApiIdle

NextHash == FingerprintBoth

SpecHash == InitHash /\ [][NextHash]_vars

\* two clients submitting jobs
InitClients ==
    PipelineIdle /\ RetryIdle /\ SortIdle /\ ConvIdle /\ DescIdle /\ AsrIdle /\ KeyIdle
        /\ SampleIdle /\ ScenarioIdle /\ RenderIdle /\ HashIdle /\ ClientsInit /\ ParseIdle /\ ApiIdle

NextClients ==
    \E c \in Clients :
        \/ EnterSdk(c)
        \/ SetBaseUrl(c)
        \/ SetApiKey(c)
        \/ AsyncCall(c)

SpecClients == InitClients /\ [][NextClients]_vars

\* the parsing of a response
InitParse ==
    PipelineIdle /\ RetryIdle /\ SortIdle /\ ConvIdle /\ DescIdle /\ AsrIdle /\ KeyIdle
        /\ SampleIdle /\ ScenarioIdle /\ RenderIdle /\ HashIdle /\ ClientsIdle /\ ParseInit /\ ApiIdle

NextParse == ParseItems

SpecParse == InitParse /\ [][NextParse]_vars

\* threads calling the module API
InitApi ==
    PipelineIdle /\ RetryIdle /\ SortIdle /\ ConvIdle /\ DescIdle /\ AsrIdle /\ KeyIdle
        /\ SampleIdle /\ ScenarioIdle /\ RenderIdle /\ HashIdle /\ ClientsIdle /\ ParseIdle
        /\ ApiInit

NextApi ==
    \E t \in Threads :
        \/ ApiCall(t)
        \/ CheckSingleton(t)
        \/ ConstructPipeline(t)
        \/ StoreSingleton(t)
        \/ ReturnSingleton(t)

SpecApi == InitApi /\ [][NextApi]_vars

(***************************************************************************)
(* The properties.                                                         *)
(***************************************************************************)
Invoked(op) == \E i \in DOMAIN trace : trace[i].op = op

ExtractionInvoked == Invoked("extract_keyframes")

VisionInvoked == Invoked("describe_frames")

SttInvoked == Invoked("transcribe_path") \/ Invoked("transcribe_bytes")

\* the call has passed the fallback stage
PastFallback == pc \in {"build", "done"} /\ n_stt >= 0

VideoSuffixes == { <<".","m","p","4">>, <<".","m","o","v">>, <<".","a","v","i">>,
                   <<".","m","k","v">>, <<".","w","e","b","m">> }

\* the name ends, whatever the case of its letters, with sfx
EndsWithAnyCase(name, sfx) ==
    /\ Len(name) >= Len(sfx)
    /\ \A j \in 1..Len(sfx) :
          LowerChar(name[Len(name) - Len(sfx) + j]) = LowerChar(sfx[j])

\* conditions (a), (b) and (c) of the visual fallback
FallbackConditions ==
    /\ ~IsNone(backend)
    /\ \E sfx \in VideoSuffixes : EndsWithAnyCase(Val(backend).filename, sfx)
    /\ n_stt = 0
    /\ vision_provider # "None"

\* C1, as amended: keyframe extraction is invoked if and only if the filename
\* ends, case-insensitively, with a video extension, the speech-to-text stage
\* yielded zero items and a vision provider is configured; the vision
\* provider is invoked if and only if, in addition, the extraction returned
\* at least one frame.  Neither is ever invoked when a condition fails.
C1_FallbackIff ==
    /\ ExtractionInvoked => FallbackConditions
    /\ VisionInvoked => ExtractionInvoked /\ frames # << >>
    /\ PastFallback =>
         /\ FallbackConditions => ExtractionInvoked
         /\ (FallbackConditions /\ frames # << >>) => VisionInvoked

\* C1 witness: a video call with no transcription and a provider has ended
\* with both the extraction and the provider invoked
C1_Witness ==
    /\ pc = "done"
    /\ FallbackConditions
    /\ ExtractionInvoked
    /\ VisionInvoked
    /\ ~IsNone(returned)

\* C1 as stated: past the fallback stage, extraction and the vision provider
\* have both been invoked if and only if the three conditions hold
C1_AsStated ==
    PastFallback => ((ExtractionInvoked /\ VisionInvoked) <=> FallbackConditions)

Timed(item) == ~IsNone(item.start_time) /\ ~IsNone(item.end_time)

\* a comes strictly before b in the order of (start_time, end_time, text)
TimeKeyLt(a, b) ==
    \/ Val(a.start_time) < Val(b.start_time)
    \/ /\ Val(a.start_time) = Val(b.start_time)
       /\ \/ Val(a.end_time) < Val(b.end_time)
          \/ /\ Val(a.end_time) = Val(b.end_time)
             /\ StrLt(a.text, b.text)

\* C2: in the sorted conversation, two items whose timestamps are all set come
\* in the order of (start_time, end_time, text)
C2_TimeOrder ==
    (~IsNone(sort_out) /\ Val(sort_out).ok) =>
        LET l == Val(sort_out).list
        IN \A i, j \in DOMAIN l :
              (i < j /\ Timed(l[i]) /\ Timed(l[j])) => ~TimeKeyLt(l[j], l[i])

\* C3: once the speech-to-text provider has raised AsrServiceError, the call
\* has ended raising that error, has returned nothing, and neither keyframe
\* extraction nor the vision provider has been invoked
C3_AsrErrorIsFatal ==
    Invoked("provider_raised") =>
        /\ pc = "done"
        /\ raised = Error("AsrServiceError", << >>)
        /\ IsNone(returned)
        /\ ~ExtractionInvoked
        /\ ~VisionInvoked

\* C3 witness: the provider raised on a video input with a vision provider
\* configured
C3_Witness ==
    /\ Invoked("provider_raised")
    /\ vision_provider = "configured"
    /\ _is_video_file(Val(backend).filename)
    /\ pc = "done"

NoAudio == ensure_result.kind = "NoAudioStreamError"

\* C4: when the conversion reported NoAudioStreamError, the call never raises
\* and never calls the speech-to-text provider; past the speech-to-text stage
\* the transcription counts zero items; the call goes through the fallback
\* decision, and the result it returns has audio_path None
C4_NoAudioIsNotAnError ==
    NoAudio =>
        /\ IsNone(raised)
        /\ ~SttInvoked
        /\ IsNone(wav_path)
        /\ pc \notin {"prepare_end", "stt"} => n_stt = 0
        /\ pc = "done" => /\ ~IsNone(returned)
                          /\ IsNone(Val(returned).audio_path)
                          /\ ExtractionInvoked <=> FallbackConditions

\* C4 witness: a call of transcribe_with_artifacts whose conversion reported
\* NoAudioStreamError has returned
C4_Witness ==
    /\ NoAudio
    /\ pc = "done"
    /\ entry = "transcribe_with_artifacts"
    /\ ~IsNone(returned)
    /\ Val(returned).kind = "TranscriptionResult"

NoAudioPhrases ==
    { <<"o","u","t","p","u","t"," ","f","i","l","e"," ","d","o","e","s"," ","n","o","t"," ",
        "c","o","n","t","a","i","n"," ","a","n","y"," ","s","t","r","e","a","m">>,
      <<"s","t","r","e","a","m"," ","s","p","e","c","i","f","i","e","r"," ","'",":","a","'">>,
      <<"m","a","t","c","h","e","s"," ","n","o"," ","s","t","r","e","a","m","s">> }

\* text holds phrase somewhere, whatever the case of the letters
HoldsAnyCase(text, phrase) ==
    \E i \in 1..(Len(text) - Len(phrase) + 1) :
       \A j \in 1..Len(phrase) : LowerChar(text[i + j - 1]) = LowerChar(phrase[j])

\* the source is not a WAV file, so the converter is run
ConvertedNonWav == ~IsNone(conv_result) /\ ~IsWavPath(conv_source)

\* C5: on a non-WAV source, exit code 0 returns the fresh temporary WAV, which
\* exists; a non-zero exit whose diagnostic text holds a no-audio marker in
\* any case raises NoAudioStreamError; any other non-zero exit raises
\* RuntimeError with the diagnostic text; and in both failures the temporary
\* output has been deleted
C5_ConverterOutcome ==
    ConvertedNonWav =>
        LET r == Val(conv_result)
            marked == \E ph \in NoAudioPhrases : HoldsAnyCase(conv_stderr, ph)
        IN /\ r.ran
           /\ conv_rc = 0 =>
                /\ r.kind = "returned"
                /\ r.path = Some(TempWav)
                /\ TempWav # conv_source
                /\ TempWav \in r.created \ r.deleted
           /\ (conv_rc # 0 /\ marked) =>
                /\ r.kind = "NoAudioStreamError"
                /\ TempWav \in r.deleted
           /\ (conv_rc # 0 /\ ~marked) =>
                /\ r.kind = "RuntimeError"
                /\ r.message = conv_stderr
                /\ TempWav \in r.deleted

\* C5 witness: the converter failed on a non-WAV source with a marker in
\* upper case in its diagnostic text
C5_Witness ==
    /\ ConvertedNonWav
    /\ conv_rc # 0
    /\ conv_stderr = Upper(_NO_AUDIO_ERROR_MARKERS[1])
    /\ Val(conv_result).kind = "NoAudioStreamError"

\* the temporary WAV files of the pipeline: the output of the converter, and
\* the temporary copy of an in-memory input that was returned as the WAV
IsTempWav(p) ==
    \/ p.kind = "temp_wav"
    \/ p.kind = "temp_audio_source" /\ wav_path = Some(p)

\* C6: after the call has ended, a temporary WAV exists only if the call
\* returned a TranscriptionResult that carries its path
C6_TempWavDeleted ==
    pc = "done" =>
        \A p \in fs :
           IsTempWav(p) =>
              /\ ~IsNone(returned)
              /\ Val(returned).kind = "TranscriptionResult"
              /\ Val(returned).audio_path = Some(p)

\* C7: after a call in which keyframe extraction ran has ended, no frame file
\* and no keyframe directory exists
C7_FramesDeleted ==
    (pc = "done" /\ ExtractionInvoked) =>
        \A p \in fs : p.kind \notin {"frame", "keyframes_dir"}

\* C8: once the stage that wrote it is over, the temporary copy made for the
\* audio extraction exists if and only if it is the WAV returned (which takes
\* a filename with a .wav extension), and the temporary copy made for the
\* keyframe extraction does not exist
C8_TempCopiesDeleted ==
    /\ (~IsNone(temp_source) /\ pc \notin {"ensure_wav", "prepare_end"}) =>
          /\ (Val(temp_source) \in fs) <=> (wav_path = temp_source)
          /\ (wav_path = temp_source) =>
                EndsWithAnyCase(Val(backend).filename, <<".","w","a","v">>)
    /\ (~IsNone(video_temp_source) /\ pc \in {"build", "done"}) =>
          Val(video_temp_source) \notin fs

\* C8 witness: a call on an in-memory video has ended after the conversion
\* reported no audio and the fallback ran; both copies were written
C8_Witness ==
    /\ pc = "done"
    /\ ~IsNone(temp_source)
    /\ ~IsNone(video_temp_source)
    /\ NoAudio
    /\ Invoked("_write_temp_file")
    /\ Val(temp_source) \notin fs

\* the outcome is one the policy retries: a network error or a status >= 500
Retryable(o) == o.kind = "neterr" \/ o.status >= 500

\* the delays slept so far are 2^1, 2^2, ... in this order
Backoff(delays) == \A k \in DOMAIN delays : delays[k] = 2 ^ k

\* C9: with R >= 1, the direct request sends at most R requests; every request
\* but the last ended in a network error or a status >= 500, so none follows
\* a 200 or a 4xx; the delay after attempt k is 2^k and none follows the last
\* attempt; the loop goes on exactly while the last outcome is retryable and
\* fewer than R requests were sent; it ends with the response handed to
\* parsing if the last status is 200 and with AsrServiceError otherwise
C9_DirectRetryPolicy ==
    (retries >= 1 /\ d_result # "idle") =>
        /\ d_sent <= retries
        /\ \A k \in 1..(d_sent - 1) : Retryable(outcomes[k])
        /\ Backoff(d_delays)
        /\ d_result = "running" =>
              /\ Len(d_delays) = d_sent
              /\ d_sent < retries
              /\ d_sent >= 1 => Retryable(outcomes[d_sent])
        /\ d_result # "running" =>
              /\ d_sent >= 1
              /\ Len(d_delays) = d_sent - 1
              /\ ~Retryable(outcomes[d_sent]) \/ d_sent = retries
              /\ d_result = IF outcomes[d_sent].kind = "response"
                               /\ outcomes[d_sent].status = 200
                            THEN "parse" ELSE "AsrServiceError"

\* C9 witness: with R = 3 the loop sent three requests, slept 2 and 4 seconds,
\* and raised AsrServiceError
C9_Witness ==
    /\ retries = 3
    /\ d_sent = 3
    /\ d_delays = << 2, 4 >>
    /\ d_result = "AsrServiceError"

\* the class of the end of a loop: the response goes to parsing, or the error
\* of the provider is raised
OutcomeClass(result) ==
    IF result = "parse" THEN "parse"
    ELSE IF result \in {"AsrServiceError", "VisionServiceError"} THEN "error"
    ELSE result

\* C10: with R >= 1 and the same per-attempt outcomes, once both loops have
\* ended, _post_with_retry and _transcribe_direct have sent the same number
\* of requests, slept the same delays, and ended in the same class of outcome
C10_SameRetryPolicy ==
    (retries >= 1 /\ d_result \notin {"idle", "running"}
                  /\ v_result \notin {"idle", "running"}) =>
        /\ v_sent = d_sent
        /\ v_delays = d_delays
        /\ OutcomeClass(v_result) = OutcomeClass(d_result)
        /\ OutcomeClass(v_result) \in {"parse", "error"}

\* C10 witness: both loops have ended after a retried server error
C10_Witness ==
    /\ retries >= 2
    /\ outcomes[1] = Response(503)
    /\ v_result \notin {"idle", "running"}
    /\ d_result \notin {"idle", "running"}
    /\ v_sent >= 2

\* the frames of desc_frames whose captioning succeeded
CaptionedOk == {i \in DOMAIN desc_caps : desc_caps[i].kind = "text"}

\* the position in the input of the n-th frame captioned
NthCaptioned(n) ==
    CHOOSE i \in CaptionedOk : Cardinality({j \in CaptionedOk : j <= i}) = n

\* every captioning succeeded or raised VisionServiceError
OnlyVisionErrors == \A i \in DOMAIN desc_caps : desc_caps[i].kind # "Exception"

\* the header line of the item of the frame at position i
KeyframeHeader(i) ==
    KEYFRAME_PREFIX \o <<"f","r","a","m","e","=">> \o Digits(i) \o <<";","t","i","m","e","=">>

\* C11: describe_frames returns one item for each frame captioned and none for
\* a frame whose captioning raised VisionServiceError, in input order; the
\* header of an item carries the position of its frame in the input, its
\* start_time is the timestamp of the frame in milliseconds and its end_time
\* is one millisecond later
C11_OneItemPerCaption ==
    (~IsNone(desc_out) /\ OnlyVisionErrors) =>
        LET out == Val(desc_out)
        IN /\ ~out.raised
           /\ Len(out.items) = Cardinality(CaptionedOk)
           /\ \A n \in DOMAIN out.items :
                 LET i == NthCaptioned(n)
                     item == out.items[n]
                 IN /\ StartsWith(item.text, KeyframeHeader(i))
                    /\ Contains(item.text, <<"\n">> \o desc_caps[i].text \o <<"\n">>)
                    /\ item.start_time = Some(OfInt(desc_frames[i].ts))
                    /\ item.end_time = Some(OfInt(desc_frames[i].ts) + OfInt(1))

\* the same without the millisecond value of start_time
C11_ButForTheValue ==
    (~IsNone(desc_out) /\ OnlyVisionErrors) =>
        LET out == Val(desc_out)
        IN /\ ~out.raised
           /\ Len(out.items) = Cardinality(CaptionedOk)
           /\ \A n \in DOMAIN out.items :
                 LET i == NthCaptioned(n)
                     item == out.items[n]
                 IN /\ StartsWith(item.text, KeyframeHeader(i))
                    /\ Val(item.end_time) = Val(item.start_time) + OfInt(1)
                    /\ Val(item.start_time) \in
                          {OfInt(desc_frames[i].ts), OfInt(desc_frames[i].ts - 1)}

\* the outcomes of the captioning of the frames, in the order of the frames
FrameEvents ==
    SelectSeq(trace, LAMBDA e : e.op \in {"frame_captioned", "frame_skipped", "frame_raised"})

\* the document holds the keyframe item of the frame at position i
InDocument(i) ==
    \E k \in DOMAIN Val(returned).document.texts :
       LET text == Val(returned).document.texts[k]
       IN /\ StartsWith(text, KEYFRAME_PREFIX)
          /\ Contains(text, <<" ","f","r","a","m","e","=">> \o Digits(i) \o <<";">>)

\* C12: whatever happens to the other frames, the item of every frame that was
\* captioned is in the document the call returns
C12_CaptionsKept ==
    (pc = "done" /\ ~IsNone(returned)) =>
        \A i \in DOMAIN FrameEvents :
           FrameEvents[i].op = "frame_captioned" => InDocument(i)

\* C12 restricted to calls in which no captioning raised anything but
\* VisionServiceError
C12_KeptAfterVisionErrors ==
    (pc = "done" /\ ~IsNone(returned)
        /\ \A i \in DOMAIN FrameEvents : FrameEvents[i].op # "frame_raised") =>
        \A i \in DOMAIN FrameEvents :
           FrameEvents[i].op = "frame_captioned" => InDocument(i)

\* the default vision client could not be constructed
VisionInitFailed == vision_init \in {"VisionServiceError", "Exception"}

\* C13: when the default vision client cannot be constructed, the constructor
\* does not fail and leaves vision_provider None; a later call never takes the
\* visual fallback, raises nothing on account of the vision provider, and a
\* call that ends normally returns the summary and every transcribed item
C13_VisionInitNeverFails ==
    VisionInitFailed =>
        /\ vision_provider = "None"
        /\ pc # "new"
        /\ ~ExtractionInvoked
        /\ ~VisionInvoked
        /\ IsNone(video_temp_source)
        /\ ~IsNone(raised) =>
              Val(raised).type \in {"FileNotFoundError", "ValueError", "RuntimeError",
                                    "AsrServiceError", "TypeError"}
        /\ (pc = "done" /\ IsNone(raised)) =>
              /\ ~IsNone(returned)
              /\ Len(Val(returned).document.texts)
                    = n_stt + (IF ~IsNone(summary) /\ Val(summary) # << >> THEN 1 ELSE 0)

\* C13 witness: after an unexpected error of AliyunVisionClient(), a call on a
\* video for which the speech-to-text stage yielded nothing returned a document
C13_Witness ==
    /\ vision_init = "Exception"
    /\ pc = "done"
    /\ n_stt = 0
    /\ _is_video_file(Val(backend).filename)
    /\ ~IsNone(returned)

\* a request whose answer is a non-success status or a body that is not JSON
BadReply(e) ==
    /\ e.outcome.kind = "response"
    /\ e.outcome.status # HTTP_OK \/ ~e.outcome.body.json

\* the download answered 200 with a body that is not JSON
BadTranscript(e) ==
    /\ e.op = "download"
    /\ e.outcome.kind = "response"
    /\ e.outcome.status = HTTP_OK
    /\ ~e.outcome.body.json

\* an unrecoverable failure of the client: no task identifier, a non-success
\* status (for the direct request, one that is not retried), a body that is
\* not JSON in the upload, the direct or the transcript response
Unrecoverable(e) ==
    \/ e.op = "async_call" /\ e.outcome.kind = "response"
          /\ (e.outcome.status # HTTP_OK \/ ~e.outcome.task_id)
    \/ e.op = "wait" /\ e.outcome.kind = "response" /\ e.outcome.status # HTTP_OK
    \/ e.op \in {"upload", "download"} /\ BadReply(e)
    \/ e.op = "direct" /\ e.exc # "retry" /\ BadReply(e)

\* C14: a call in which an unrecoverable failure occurred ends with
\* AsrServiceError, never with a returned list and never with another exception
C14_FailuresAreAsrErrors ==
    (a_pc = "done" /\ \E k \in DOMAIN a_trace : Unrecoverable(a_trace[k])) =>
        /\ a_raised = Some("AsrServiceError")
        /\ IsNone(a_return)

\* the same with the undecodable transcript left out
C14_ButForTheTranscript ==
    (a_pc = "done" /\ \E k \in DOMAIN a_trace :
                         Unrecoverable(a_trace[k]) /\ ~BadTranscript(a_trace[k])) =>
        /\ a_raised = Some("AsrServiceError")
        /\ IsNone(a_return)

UploadPathOps == {"upload", "async_call", "wait", "download"}

\* the asynchronous path ended with ImportError or with an exception that is
\* not AsrServiceError
SdkFellThrough(e) ==
    e.op \in UploadPathOps /\ e.exc \notin {"", "AsrServiceError"}

\* what the last request of the trace yielded
LastOutcome ==
    LET e == a_trace[Len(a_trace)]
    IN IF a_raised # None THEN Val(a_raised) = e.exc
       ELSE e.exc = "" /\ a_return = Some(DirectParse(e.outcome.body).items)

\* C15: with audio bytes and no URLs the upload is the first request; a direct
\* request is sent only after the asynchronous path ended with ImportError or
\* a non-AsrServiceError exception, it is then the next request, nothing of the
\* asynchronous path follows it, and the call ends with the outcome of the
\* direct request; a call that ends otherwise sent no direct request
C15_UploadThenDirect ==
    a_via = "upload" =>
        /\ a_trace # << >> => a_trace[1].op = "upload"
        /\ a_pc \notin {"idle", "upload"} => a_trace # << >>
        /\ \A k \in DOMAIN a_trace :
              /\ a_trace[k].op = "direct" =>
                    /\ k > 1
                    /\ \/ SdkFellThrough(a_trace[k - 1])
                       \/ a_trace[k - 1].op = "direct" /\ a_trace[k - 1].exc = "retry"
              /\ SdkFellThrough(a_trace[k]) =>
                    IF k = Len(a_trace) THEN a_pc = "direct"
                    ELSE a_trace[k + 1].op = "direct"
        /\ (a_pc = "done" /\ \E k \in DOMAIN a_trace : a_trace[k].op = "direct") =>
              /\ a_trace[Len(a_trace)].op = "direct"
              /\ LastOutcome
        /\ (a_pc = "done" /\ a_trace[Len(a_trace)].op # "direct") =>
              \A k \in DOMAIN a_trace : a_trace[k].op # "direct"

\* C15 witness: the SDK could not be imported after the upload, and the
\* direct request returned items
C15_Witness ==
    /\ a_pc = "done"
    /\ a_via = "upload"
    /\ Len(a_trace) = 3
    /\ a_trace[2].exc = "ImportError"
    /\ a_trace[3].op = "direct"
    /\ a_return # None
    /\ Val(a_return) # << >>

\* the last request was a direct one that was answered 200 with a JSON object
DirectAnswered ==
    /\ a_pc = "done"
    /\ a_trace # << >>
    /\ LET e == a_trace[Len(a_trace)]
       IN /\ e.op = "direct"
          /\ e.outcome.kind = "response"
          /\ e.outcome.status = HTTP_OK
          /\ e.outcome.body.json
          /\ e.outcome.body.object

LastBody == a_trace[Len(a_trace)].outcome.body

\* the upload request ended in a connection error
UploadUnreachable ==
    /\ a_trace # << >>
    /\ a_trace[1].op = "upload"
    /\ a_trace[1].outcome.kind = "neterr"

\* C16: transcribe_path, when the upload ends in a connection error, goes on
\* to the direct request, and when that is answered 200 with code "Success"
\* and segments it returns a non-empty list whose first text is that of the
\* first segment
C16_DirectWhenUploadUnreachable ==
    (a_pc = "done" /\ a_req.entry = "transcribe_path" /\ UploadUnreachable) =>
        /\ a_trace[Len(a_trace)].op = "direct"
        /\ (DirectAnswered /\ LastBody.code = "Success" /\ LastBody.segments # << >>) =>
              /\ a_return # None
              /\ Val(a_return) # << >>
              /\ Val(a_return)[1].text = LastBody.segments[1].text

\* what does hold: once the asynchronous path fell through to the direct
\* request, a 200 "Success" answer with segments gives one item per segment,
\* each with the stripped text of its segment
C16_DirectAfterFallThrough ==
    (DirectAnswered /\ LastBody.code = "Success" /\ LastBody.segments # << >>) =>
        /\ a_return # None
        /\ Len(Val(a_return)) = Len(LastBody.segments)
        /\ \A i \in DOMAIN LastBody.segments :
              Val(a_return)[i].text = Strip(LastBody.segments[i].text)

Calls(op) == Cardinality({i \in DOMAIN trace : trace[i].op = op})

\* the method the input kind selects, and the other one
Selected == IF Val(backend).kind = "path" THEN "transcribe_path" ELSE "transcribe_bytes"
NotSelected == IF Val(backend).kind = "path" THEN "transcribe_bytes" ELSE "transcribe_path"

\* the speech-to-text stage is behind and there was audio to transcribe
Transcribed == pc \in {"decide", "extract", "caption", "describe_end", "build", "done"}
                  /\ ~IsNone(wav_path) /\ n_stt >= 0

C18_PathWitness ==
    /\ pc = "done"
    /\ ~IsNone(backend)
    /\ Val(backend).kind = "path"
    /\ Calls("transcribe_path") = 1
    /\ n_stt = 2
    /\ ~IsNone(returned)

\* the scene pass failed, or ended with no frame file in the directory
ScenePassEmpty ==
    /\ k_runs # << >>
    /\ \/ ~k_runs[1].outcome.ok
       \/ k_runs[1].outcome.n = 0

\* C19: when the scene pass failed or left no frame file, the call does not
\* end before a pass with the uniform filter has run, that pass started in a
\* directory without frame files, and no frame file of the scene pass is left
C19_UniformPassAfterEmptyScene ==
    (k_pc = "done" /\ ScenePassEmpty) =>
        /\ Len(k_runs) >= 2
        /\ k_runs[1].vf = SCENE
        /\ k_runs[2].vf = UNIFORM
        /\ k_runs[2].before = {}
        /\ \A f \in k_files : f.pass # 1

\* C19 witness: the scene pass failed after writing frames, and the call
\* returned the frames of the uniform pass
C19_Witness ==
    /\ k_pc = "done"
    /\ Len(k_runs) = 2
    /\ ~k_runs[1].outcome.ok
    /\ k_runs[1].outcome.n > 0
    /\ k_result # None
    /\ Val(k_result) # << >>

\* C20: one call runs the extraction process at most twice, first with the
\* scene filter and then at most once with the uniform filter
C20_AtMostTwoRuns ==
    /\ Len(k_runs) <= 2
    /\ k_runs # << >> => k_runs[1].vf = SCENE
    /\ Cardinality({i \in DOMAIN k_runs : k_runs[i].vf = UNIFORM}) <= 1

\* what does hold: at most three runs, the third only after a failed scene
\* pass and a uniform pass that wrote no frame
C20_AtMostThreeRuns ==
    /\ Len(k_runs) <= 3
    /\ k_runs # << >> => k_runs[1].vf = SCENE
    /\ Len(k_runs) = 3 =>
          /\ ~k_runs[1].outcome.ok
          /\ k_runs[2].outcome.ok
          /\ k_runs[2].outcome.n = 0
          /\ k_runs[3].vf = UNIFORM

\* max(1, N // M)
Stride(N, M) == IF N \div M > 1 THEN N \div M ELSE 1

\* the position in m_pairs of the k-th pair returned
OriginalIndex(k) == CHOOSE i \in DOMAIN m_pairs : m_pairs[i] = Val(m_out)[k]

\* C21: with N > M >= 1 the result is the M pairs at the original (0-based)
\* indices 0, s, ..., (M-1)*s for s = max(1, N // M); with N <= M the pairs are
\* returned unchanged
C21_DownsampleStride ==
    m_out # None =>
        LET N == Len(m_pairs)
            M == m_max
            s == Stride(N, M)
        IN IF N > M
           THEN /\ Len(Val(m_out)) = M
                /\ \A k \in 1..M : Val(m_out)[k] = m_pairs[(k - 1) * s + 1]
           ELSE Val(m_out) = m_pairs

\* C21 witness: more pairs than max_frames, with a stride above 1
C21_Witness ==
    /\ m_out # None
    /\ Len(m_pairs) = 7
    /\ m_max = 3
    /\ Len(Val(m_out)) = 3
    /\ Val(m_out)[3] = m_pairs[5]

\* C22: with N > M >= 1 the last pair returned lies within one stride of the
\* end: its original (0-based) index is at least N - s
C22_TailCovered ==
    (m_out # None /\ Len(m_pairs) > m_max) =>
        OriginalIndex(Len(Val(m_out))) - 1 >= Len(m_pairs) - Stride(Len(m_pairs), m_max)

\* what does hold: the last pair returned is the one at index (M-1)*s, which
\* leaves N - 1 - (M-1)*s pairs behind it, up to N - M
C22_TailLeft ==
    (m_out # None /\ Len(m_pairs) > m_max) =>
        /\ OriginalIndex(Len(Val(m_out))) - 1 = (m_max - 1) * Stride(Len(m_pairs), m_max)
        /\ Len(m_pairs) - OriginalIndex(Len(Val(m_out))) <= Len(m_pairs) - m_max

\* the document has one line per keyframe, each within the marker pair
KeyframeLines ==
    /\ Len(Val(g_doc).texts) = Len(g_frames)
    /\ \A i \in DOMAIN Val(g_doc).texts :
          /\ StartsWith(Val(g_doc).texts[i], KEYFRAME_PREFIX)
          /\ EndsWith(Val(g_doc).texts[i], KEYFRAME_SUFFIX)

\* line i of the document is the rendering of the item of frame i
InTimestampOrder ==
    \A i \in DOMAIN Val(g_doc).texts : Val(g_doc).texts[i] = to_string(g_items[i])

\* C23: k keyframes (1 <= k <= max_frames) with increasing timestamps, all
\* captioned, give a document of exactly k lines, each beginning with
\* KEYFRAME_START and ending with KEYFRAME_END, in ascending timestamp order
C23_KeyframeLinesInOrder ==
    g_doc # None => (KeyframeLines /\ InTimestampOrder)

\* what does hold: the k lines and their markers for every k, and the order
\* for up to nine keyframes
C23_OrderedUpToNine ==
    g_doc # None =>
        /\ KeyframeLines
        /\ Len(g_frames) <= 9 => InTimestampOrder

TimeRange(start_time, end_time) ==
    _format_ms(start_time) \o <<"-">> \o _format_ms(end_time)

\* C24: a response segment "hello world" from 0.0 to 1.2 seconds gives a
\* document of exactly one line, which contains the time tag
\* 00:00:00.000-00:00:01.200 and the text "hello world"
C24_HelloWorldLine ==
    (t_lines # None /\ t_seg = Some(Segment(HelloWorld, Some(0), Some(1200)))) =>
        /\ Len(Val(t_lines)) = 1
        /\ Contains(Val(t_lines)[1], TimeRange(Some(OfInt(0)), Some(OfInt(1200))))
        /\ Contains(Val(t_lines)[1], HelloWorld)

\* what does hold: the one line is the bare text, without a time tag
C24_HelloWorldUntagged ==
    (t_lines # None /\ t_seg = Some(Segment(HelloWorld, Some(0), Some(1200)))) =>
        Val(t_lines) = << HelloWorld >>

SpeakerTag(item) ==
    IF item.speaker # None
    THEN << <<"[","s","p","e","a","k","e","r",":">> \o Val(item.speaker) \o <<"]">> >>
    ELSE << >>

TimeTag(item) ==
    <<"[","t","i","m","e",":"," ">> \o TimeRange(item.start_time, item.end_time) \o <<"]">>

\* an item without the keyframe marker was rendered
PlainRendered ==
    /\ t_lines # None
    /\ ~StartsWith(Val(t_item).text, KEYFRAME_PREFIX)

\* C25: the line of an item without the keyframe marker is the time-range tag
\* (with the placeholder for an unset bound), the speaker tag if a speaker is
\* set, and the raw text
C25_AlwaysTimeTag ==
    PlainRendered =>
        Val(t_lines) = << JoinSpace(<< TimeTag(Val(t_item)) >> \o SpeakerTag(Val(t_item))
                                      \o << Val(t_item).text >>) >>

\* what does hold: the time-range tag is there only when both bounds are set
C25_TagWhenBothSet ==
    PlainRendered =>
        LET item == Val(t_item)
            both == item.start_time # None /\ item.end_time # None
        IN Val(t_lines) = << JoinSpace((IF both THEN << TimeTag(item) >> ELSE << >>)
                                         \o SpeakerTag(item) \o << item.text >>) >>

\* the input is a path whose extension is .wav in some letter case
WavPathInput ==
    /\ ~IsNone(backend)
    /\ Val(backend).kind = "path"
    /\ EndsWithAnyCase(Val(backend).filename, <<".","w","a","v">>)

\* C26: for a path input with a .wav extension the conversion process is not
\* run, no file besides the input exists (no copy, no temporary WAV), the
\* provider is given the input path, the audio_path returned is the input
\* path, and the input file is still there
C26_WavBypassesConversion ==
    WavPathInput =>
        /\ ~Invoked("ffmpeg_convert")
        /\ IsNone(temp_source)
        /\ fs = {Val(Val(backend).path)}
        /\ \A i \in DOMAIN trace :
              trace[i].op \in {"transcribe_path", "transcribe_bytes"} =>
                 /\ trace[i].op = "transcribe_path"
                 /\ trace[i].path = Val(backend).path
        /\ pc \in {"stt", "decide", "build"} => wav_path = Val(backend).path
        /\ (~IsNone(returned) /\ entry = "transcribe_with_artifacts") =>
              Val(returned).audio_path = Val(backend).path

\* C26 witness: A.WAV given as a path was transcribed and returned as the
\* audio artifact
C26_Witness ==
    /\ WavPathInput
    /\ Val(backend).filename = <<"A",".","W","A","V">>
    /\ pc = "done"
    /\ Invoked("transcribe_path")
    /\ ~IsNone(returned)
    /\ Val(returned).audio_path = Val(backend).path

\* C27: two runs on readable inputs with the same bytes give the same
\* fingerprint, whatever the filenames and whether each input is a path or a
\* buffer, and the fingerprint is that of the input bytes
C27_FingerprintOfBytes ==
    (h_hashes # None /\ h_first.readable /\ h_second.readable) =>
        /\ h_first.data = h_second.data => Val(h_hashes)[1] = Val(h_hashes)[2]
        /\ Val(h_hashes)[1] = [sha256 |-> h_first.data]
        /\ Val(h_hashes)[2] = [sha256 |-> h_second.data]

\* C27 witness: a file a.wav and a buffer named c.mp4 with the same bytes
C27_Witness ==
    /\ h_hashes # None
    /\ h_first.kind = "path" /\ h_first.readable
    /\ h_first.name = <<"a",".","w","a","v">>
    /\ h_second.kind = "bytes"
    /\ h_second.filename = Some(<<"c",".","m","p","4">>)
    /\ h_first.data = h_second.data
    /\ Val(h_hashes)[1] = Val(h_hashes)[2]

\* the error the shape of the input calls for, "" for a valid input
InputError(inp) ==
    IF inp.kind = "path" THEN (IF inp.exists THEN "" ELSE "FileNotFoundError")
    ELSE IF inp.kind = "bytes"
    THEN (IF inp.filename = None \/ inp.filename = Some(<< >>) \/ inp.data = << >>
          THEN "ValueError" ELSE "")
    ELSE "TypeError"

\* C28: a path that does not exist fails with FileNotFoundError, a buffer
\* without filename, with an empty one or with zero bytes with ValueError, any
\* other input with TypeError; the call then ends there, with validate_input
\* its only step: no file created, no process run, no provider called
C28_InvalidInputFailsFirst ==
    input # None =>
        IF InputError(Val(input)) # ""
        THEN /\ pc = "done"
             /\ raised = Error(InputError(Val(input)), << >>)
             /\ IsNone(returned)
             /\ fs = {}
             /\ trace = << Ev("validate_input", None, << >>) >>
        ELSE /\ ~IsNone(backend)
             /\ ~IsNone(raised) =>
                   Val(raised).type \notin {"FileNotFoundError", "ValueError"}

\* C28 witness: a buffer with a filename and zero bytes was refused
C28_Witness ==
    /\ input # None
    /\ Val(input).kind = "bytes"
    /\ Val(input).filename = Some(<<"c",".","m","p","4">>)
    /\ Val(input).data = << >>
    /\ raised = Error("ValueError", << >>)

\* the stage of transcribe_with_artifacts (lines 80-127) a step belongs to:
\* 1 validation, 2 fingerprint, 3 audio extraction, 4 speech-to-text,
\* 5 fallback decision, 6 keyframe extraction, 7 captioning, 8 assembly
StageOfEvent(e) ==
    IF e.op = "validate_input" THEN 1
    ELSE IF e.op = "_compute_binary_hash" THEN 2
    ELSE IF e.op = "_write_temp_file"
    THEN (IF Val(e.path).kind = "temp_audio_source" THEN 3 ELSE 6)
    ELSE IF e.op = "ffmpeg_convert" THEN 3
    ELSE IF e.op \in {"transcribe_path", "transcribe_bytes", "provider_raised"} THEN 4
    ELSE IF e.op \in {"input_removed", "extract_keyframes", "ffmpeg_extract",
                     "extract_raised"} THEN 6
    ELSE 7

\* the stage the call is in at a position of the pipeline
StageOfPc(p) ==
    IF p \in {"new", "idle"} THEN 0
    ELSE IF p \in {"prepare_wav", "ensure_wav", "prepare_end"} THEN 3
    ELSE IF p = "stt" THEN 4
    ELSE IF p = "decide" THEN 5
    ELSE IF p = "extract" THEN 6
    ELSE IF p \in {"caption", "describe_end"} THEN 7
    ELSE IF p = "build" THEN 8
    ELSE 9

\* the steps of a call are grouped by stage, in stage order, no step of a later
\* stage is there before the call has reached that stage, and the k-th
\* captioning step is about the k-th frame of the sequence
StagesInOrder ==
    /\ \A i, j \in DOMAIN trace : i < j => StageOfEvent(trace[i]) <= StageOfEvent(trace[j])
    /\ pc # "idle" => \A i \in DOMAIN trace : StageOfEvent(trace[i]) <= StageOfPc(pc)
    /\ Len(FrameEvents) <= Len(frames)
    /\ \A k \in DOMAIN FrameEvents : FrameEvents[k].path = Some(frames[k].frame)

\* a step of the pipeline moves the call to a later stage, or to its end
StageAdvances ==
    pc' # pc =>
        \/ StageOfPc(pc') > StageOfPc(pc)
        \/ StageOfPc(pc') = StageOfPc(pc) /\ StageOfPc(pc) \in {3, 7}
        \/ pc' = "idle"

OwnCredentials(job) ==
    /\ job.api_key = cl_settings[job.client].api_key
    /\ job.base_http_api_url = cl_settings[job.client].base_http_api_url

\* C30: whatever the interleaving of two clients, every job a client submits is
\* sent with that client's own API key and base URL
C30_OwnCredentials ==
    \A i \in DOMAIN submitted : OwnCredentials(submitted[i])

\* when one client alone submits jobs, each goes out with its own key and address
C30_AloneOwnCredentials ==
    (\E c \in Clients : cl_jobs[c] = 0 /\ cl_pc[c] = "idle") =>
        \A i \in DOMAIN submitted : OwnCredentials(submitted[i])


\* a summary other than None and the empty string was given
SummaryGiven == ~IsNone(summary) /\ Val(summary) # << >>

\* the number of positions of a sequence that hold x
Occurrences(seq, x) == Cardinality({i \in DOMAIN seq : seq[i] = x})

\* the two sequences hold the same elements the same number of times
SameElements(a, b) ==
    /\ Len(a) = Len(b)
    /\ \A i \in DOMAIN a : Occurrences(a, a[i]) = Occurrences(b, a[i])

\* C31: the text lines of a returned document are the "[summary] " line first,
\* there if and only if a summary other than None and "" was given, then exactly
\* one rendered line per conversation item; the origin carries the filename,
\* the media type and the fingerprint of the call
C31_DocumentLines ==
    ~IsNone(returned) =>
        LET doc == Val(returned).document
            off == IF SummaryGiven THEN 1 ELSE 0
            rendered == [i \in DOMAIN conversation |-> to_string(conversation[i])]
        IN /\ Len(doc.texts) = off + Len(conversation)
           /\ SummaryGiven =>
                 doc.texts[1] = <<"[","s","u","m","m","a","r","y","]"," ">> \o Strip(Val(summary))
           /\ SameElements(SubSeq(doc.texts, off + 1, Len(doc.texts)), rendered)
           /\ doc.origin.filename = Val(backend).filename
           /\ doc.origin.mimetype = (IF _is_video_file(Val(backend).filename)
                                     THEN <<"v","i","d","e","o","/","m","p","4">>
                                     ELSE <<"a","u","d","i","o","/","w","a","v">>)
           /\ doc.origin.binary_hash = Val(binary_hash)

\* C31 witness: a document with the summary line and two item lines
C31_Witness ==
    /\ ~IsNone(returned)
    /\ SummaryGiven
    /\ Len(conversation) = 2
    /\ Len(Val(returned).document.texts) = 3

\* C31 witness of the other case: the empty summary left no line
C31_EmptySummaryNoLine ==
    /\ ~IsNone(returned)
    /\ summary = Some(<< >>)
    /\ Len(conversation) = 1
    /\ Len(Val(returned).document.texts) = 1


\* C32: _parse_items returns one item per segment, in order, and the bounds of
\* each item and of each word are the value of the primary key ("start",
\* "end") whenever the response carries it, the value 0 included, and the value
\* of the alternate key only when the primary key is absent
C32_PrimaryFieldWins ==
    ~IsNone(n_items) =>
        LET segs == ResultSegments(n_result)
            items == Val(n_items)
        IN /\ Len(items) = Len(segs)
           /\ \A i \in DOMAIN segs :
                 /\ items[i].text = Strip(segs[i].text)
                 /\ items[i].start_time = GetPresentOr(segs[i].start, segs[i].begin_time)
                 /\ items[i].end_time = GetPresentOr(segs[i].end, segs[i].end_time)
                 /\ Len(items[i].words) = Len(segs[i].words)
                 /\ \A k \in DOMAIN segs[i].words :
                       /\ items[i].words[k].start_time
                             = GetPresentOr(segs[i].words[k].start, segs[i].words[k].start_time)
                       /\ items[i].words[k].end_time
                             = GetPresentOr(segs[i].words[k].end, segs[i].words[k].end_time)

\* a primary key that is present holds a value other than 0
NoZeroPrimary(x, primary) == x[primary] # Some(0)

\* one item per segment, in order; the bounds are those of the primary key when
\* it is present with a value other than 0
C32_NonZeroPrimaryWins ==
    ~IsNone(n_items) =>
        LET segs == ResultSegments(n_result)
            items == Val(n_items)
        IN /\ Len(items) = Len(segs)
           /\ \A i \in DOMAIN segs :
                 /\ items[i].text = Strip(segs[i].text)
                 /\ NoZeroPrimary(segs[i], "start") =>
                       items[i].start_time = GetPresentOr(segs[i].start, segs[i].begin_time)
                 /\ NoZeroPrimary(segs[i], "end") =>
                       items[i].end_time = GetPresentOr(segs[i].end, segs[i].end_time)
                 /\ Len(items[i].words) = Len(segs[i].words)


\* the requests of the call, in order
AsrOps == [i \in DOMAIN a_trace |-> a_trace[i].op]

C33_ReturnedItems ==
    /\ a_req.file_urls # << >>
    /\ a_req.data
    /\ a_pc = "done"
    /\ ~IsNone(a_return)
    /\ Val(a_return) # << >>


\* the run of the extraction process made last
LastRun == k_runs[Len(k_runs)]

\* C34: the pairs returned are (frame i, timestamp i) for every i up to the
\* smaller of the number of frame files and the number of timestamps of the
\* pass made last, in emission order; nothing an earlier pass left is paired
C34_PairsOfLastPass ==
    ~IsNone(k_result) =>
        LET last == Len(k_runs)
            o == LastRun.outcome
            n == IF o.n < Len(o.pts) THEN o.n ELSE Len(o.pts)
        IN Val(k_result) =
              [i \in 1..n |-> [frame |-> Path("frame", FrameName(i), last), ts |-> o.pts[i]]]

\* C34 witness: the scene pass failed after it wrote two frames, the uniform
\* pass wrote one frame and reported two timestamps, and one pair was returned
C34_Witness ==
    /\ ~IsNone(k_result)
    /\ Len(k_runs) = 2
    /\ ~k_runs[1].outcome.ok /\ k_runs[1].outcome.n = 2
    /\ LastRun.outcome.n = 1 /\ Len(LastRun.outcome.pts) = 2
    /\ Len(Val(k_result)) = 1


\* C35: an empty sequence is returned only when a uniform pass was made and
\* left no frame file; when the pass made last left a frame file, the sequence
\* returned is not empty
C35_EmptyOnlyWithoutFrames ==
    ~IsNone(k_result) =>
        /\ Val(k_result) = << >> => /\ LastRun.vf = UNIFORM
                                    /\ LastRun.outcome.n = 0
        /\ LastRun.outcome.n > 0 => Val(k_result) # << >>

\* an empty sequence is returned only when the pass made last left no frame
\* file or no timestamp, and with no frame file that pass was a uniform one
C35_EmptyWithoutFramesOrTimestamps ==
    ~IsNone(k_result) =>
        /\ Val(k_result) = << >> <=> (LastRun.outcome.n = 0 \/ LastRun.outcome.pts = << >>)
        /\ LastRun.outcome.n = 0 => LastRun.vf = UNIFORM


\* something was raised on the visual path: by the keyframe extraction (a
\* missing video file, a failing pass) or out of the vision provider
VisualPathRaised ==
    \/ Invoked("extract_raised")
    \/ \E i \in DOMAIN FrameEvents : FrameEvents[i].op = "frame_raised"

\* the video file was gone when the keyframes were to be extracted
VideoMissing == Invoked("input_removed") /\ Invoked("extract_raised")

\* C36: an error raised on the visual path is caught inside the pipeline: a
\* call that took the visual path raises nothing, and one on whose visual path
\* something was raised returns a document without keyframe lines
C36_VisualErrorsContained ==
    /\ ExtractionInvoked => IsNone(raised)
    /\ VisualPathRaised =>
          /\ visual_items = << >>
          /\ pc = "done" =>
                /\ ~IsNone(returned)
                /\ \A k \in DOMAIN Val(returned).document.texts :
                      ~StartsWith(Val(returned).document.texts[k], KEYFRAME_PREFIX)

\* C36 witness: both passes of the extraction failed and a document was returned
C36_Witness ==
    /\ pc = "done"
    /\ Invoked("extract_raised")
    /\ ~Invoked("input_removed")
    /\ Len(SelectSeq(trace, LAMBDA e : e.op = "ffmpeg_extract")) = 2
    /\ ~IsNone(returned)

\* C36 witness of the other errors: the video file was missing, or the vision
\* provider raised on the second frame, and a document was returned
C36_OtherErrors ==
    /\ pc = "done"
    /\ ~IsNone(returned)
    /\ \/ VideoMissing
       \/ Len(FrameEvents) = 2 /\ FrameEvents[2].op = "frame_raised"


\* the retry loops are over
DirectLoopOver == d_result \notin {"idle", "running"}
VisionLoopOver == v_result \notin {"idle", "running"}

\* C37: for every retry count R >= 0 each loop ends by handing a response to
\* parsing or by raising the error type of its provider; with R = 0 no request
\* is sent and that error is raised
C37_LoopsEndInProviderError ==
    /\ DirectLoopOver => d_result \in {"parse", "AsrServiceError"}
    /\ VisionLoopOver => v_result \in {"parse", "VisionServiceError"}
    /\ retries = 0 =>
          /\ d_sent = 0 /\ v_sent = 0
          /\ DirectLoopOver => d_result = "AsrServiceError"
          /\ VisionLoopOver => v_result = "VisionServiceError"

\* the same for the vision loop with any R, and for the direct loop with R >= 1
C37_ExceptDirectWithZero ==
    /\ (DirectLoopOver /\ retries >= 1) => d_result \in {"parse", "AsrServiceError"}
    /\ VisionLoopOver => v_result \in {"parse", "VisionServiceError"}
    /\ retries = 0 =>
          /\ d_sent = 0 /\ v_sent = 0
          /\ DirectLoopOver => d_result = "UnboundLocalError"
          /\ VisionLoopOver => v_result = "VisionServiceError"


\* the items of the conversation have pairwise distinct text
DistinctTexts(conv) == \A i, j \in DOMAIN conv : i # j => conv[i].text # conv[j].text

\* C38: a conversation whose items have pairwise distinct text is sorted by
\* text alone and without error, whichever bounds or speaker fields are unset;
\* the sort fails only when two of the items have equal text
C38_DistinctTextsSort ==
    ~IsNone(sort_out) =>
        LET r == Val(sort_out)
        IN /\ DistinctTexts(sort_in) =>
                 /\ r.ok
                 /\ Len(r.list) = Len(sort_in)
                 /\ \A i \in DOMAIN r.list : \E j \in DOMAIN sort_in : r.list[i] = sort_in[j]
                 /\ \A i, j \in DOMAIN r.list : i < j => StrLt(r.list[i].text, r.list[j].text)
           /\ ~r.ok =>
                 \E i, j \in DOMAIN sort_in :
                    /\ i # j
                    /\ sort_in[i].text = sort_in[j].text
                    /\ ItemLt(sort_in[i], sort_in[j]) = "E"

\* C38 witness: three items "c", "b", "a" with unset bounds were put in the
\* order "a", "b", "c"
C38_Witness ==
    /\ ~IsNone(sort_out)
    /\ Len(sort_in) = 3
    /\ sort_in[1].text = <<"c">> /\ sort_in[2].text = <<"b">> /\ sort_in[3].text = <<"a">>
    /\ IsNone(sort_in[2].start_time) /\ IsNone(sort_in[3].start_time)
    /\ Val(sort_out).ok
    /\ Val(sort_out).list[1].text = <<"a">>


\* C39: whatever the interleaving of calls of the module API, at most one
\* AsrPipelineLite instance is ever constructed and every call runs on that
\* same instance
C39_OneInstance ==
    /\ instances <= 1
    /\ \A i, j \in DOMAIN used : used[i].pipeline = used[j].pipeline

\* when one thread alone calls the module API, at most one instance is
\* constructed and every call runs on it
C39_OneInstanceOneThread ==
    (\E t \in Threads : th_calls[t] = 0) =>
        /\ instances <= 1
        /\ \A i, j \in DOMAIN used : used[i].pipeline = used[j].pipeline


=============================================================================
